---- MODULE Spec2Model ----
(***************************************************************************)
(* Context compaction of cocodex (sample-05 compactor, sample-02 session   *)
(* manager, sample-05 compact node).                                       *)
(*                                                                         *)
(* A message is a record [role, content].  A string content is abstracted  *)
(* to what the code reads of it: the number of tokens the tokenizer        *)
(* yields for it, whether it includes the text "cocoagent.md", and whether *)
(* it is a summary wrapped in "[이전 대화 요약]\n".  An array content is   *)
(* a sequence of parts (image_url with a detail, or text).                 *)
(***************************************************************************)
EXTENDS Integers, Sequences, FiniteSets, TLC

VARIABLES sessions, metadata, currentSessionId, options, pc, frame, outcome,
          delegateCalls, graph

vars == <<sessions, metadata, currentSessionId, options, pc, frame, outcome,
          delegateCalls, graph>>

\* ---------------------------------------------------------------- bounds
MaxHistory == 3
MaxSummaryTokens == 2
MaxPreserve == 2

\* ---------------------------------------------------------------- values
Null == "null"

SessionIds == {"s1", "s2"}

Roles == {"system", "human", "ai", "tool"}

StringContent(tokens, cocoagent, digest) ==
    [type |-> "string", tokens |-> tokens, cocoagent |-> cocoagent, digest |-> digest]

SystemMessage(content) == [role |-> "system", content |-> content]

HumanMessage(content) == [role |-> "human", content |-> content]

AIMessage(content) == [role |-> "ai", content |-> content]

ToolMessage(content) == [role |-> "tool", content |-> content]

\* messages the callers of the session manager add in this model
\* (an empty tool output has no token; the last one is a project-context
\* injection)
MessageInputs ==
    {SystemMessage(StringContent(1, FALSE, FALSE)),
     HumanMessage(StringContent(1, FALSE, FALSE)),
     AIMessage(StringContent(2, FALSE, FALSE)),
     ToolMessage(StringContent(0, FALSE, FALSE)),
     HumanMessage(StringContent(2, TRUE, FALSE))}

\* a reply of the language model to a summarization request: the text
\* `[이전 대화 요약]\n${summary}` built from it has `tokens` tokens (at least
\* one, the wrapper is not empty)
DelegateReplies ==
    {[tokens |-> t, cocoagent |-> FALSE] : t \in 1..MaxSummaryTokens}

WrapSummary(summary) == StringContent(summary.tokens, summary.cocoagent, TRUE)

\* a threshold is the number the decimal num/den denotes, or the number
\* `ulps` units in the last place above it (0.7000000000000001 is
\* Threshold(7, 10) one unit up)
Threshold(num, den) == [num |-> num, den |-> den, ulps |-> 0]

ThresholdAbove(num, den, ulps) == [num |-> num, den |-> den, ulps |-> ulps]

\* ---------------------------------------------------------------- estimator
ImageTokensLow == 85

ImageTokensHigh == 400

MessageOverhead == 4

CallOverhead == 3

\* mutant: an image part without a detail counts as a low-detail one
RECURSIVE ItemTokens_defaultLow(_)
ItemTokens_defaultLow(items) ==
    IF items = <<>> THEN 0
    ELSE LET item == Head(items)
             t == IF item.type = "image_url"
                  THEN (IF item.detail \in {"low", Null}
                        THEN ImageTokensLow ELSE ImageTokensHigh)
                  ELSE IF item.type = "text" THEN item.tokens
                  ELSE 0
         IN t + ItemTokens_defaultLow(Tail(items))

RECURSIVE ItemTokens(_)
ItemTokens(items) ==
    IF items = <<>> THEN 0
    ELSE LET item == Head(items)
             t == IF item.type = "image_url"
                  THEN (IF item.detail = "low" THEN ImageTokensLow ELSE ImageTokensHigh)
                  ELSE IF item.type = "text" THEN item.tokens
                  ELSE 0
         IN t + ItemTokens(Tail(items))

ContentTokens(content) ==
    IF content.type = "array" THEN ItemTokens(content.items) ELSE content.tokens

RECURSIVE SumMessageTokens(_)
SumMessageTokens(messages) ==
    IF messages = <<>> THEN 0
    ELSE ContentTokens(Head(messages).content) + MessageOverhead
         + SumMessageTokens(Tail(messages))

\* mutant: the overhead of the call is added once per message only
estimateTokens_perMessageOnly(messages) == SumMessageTokens(messages)

estimateTokens(messages) == SumMessageTokens(messages) + CallOverhead

\* ---------------------------------------------------------------- numbers
\* A positive number of the program is an IEEE 754 double: a significand of
\* MantissaBits bits (most significant first, the first one 1) times 2^exp.
\* The operations round to nearest, ties to even.  The arithmetic is done on
\* digits in base 8192 (13 bits), which keeps every intermediate value below
\* 2^31 for divisors below 2^17 and factors below 8192.
MantissaBits == 53

Least(S) == CHOOSE i \in S : \A j \in S : i <= j

Greatest(S) == CHOOSE i \in S : \A j \in S : j <= i

\* bits without its leading zeros
Significant(bits) ==
    LET ones == {i \in 1..Len(bits) : bits[i] = 1}
    IN IF ones = {} THEN <<>> ELSE SubSeq(bits, Least(ones), Len(bits))

\* the 13 bits of a digit d in base 8192, most significant first
Bits13(d) ==
    <<(d \div 4096) % 2, (d \div 2048) % 2, (d \div 1024) % 2, (d \div 512) % 2,
      (d \div 256) % 2, (d \div 128) % 2, (d \div 64) % 2, (d \div 32) % 2,
      (d \div 16) % 2, (d \div 8) % 2, (d \div 4) % 2, (d \div 2) % 2, d % 2>>

RECURSIVE DigitBits(_)
DigitBits(digits) ==
    IF digits = <<>> THEN <<>> ELSE Bits13(Head(digits)) \o DigitBits(Tail(digits))

\* the bits of the natural number n, most significant first
NatBits(n) ==
    Significant(DigitBits(<<n \div (8192 * 8192), (n \div 8192) % 8192, n % 8192>>))

RECURSIVE BitsNat(_)
BitsNat(bits) ==
    IF bits = <<>> THEN 0
    ELSE 2 * BitsNat(SubSeq(bits, 1, Len(bits) - 1)) + bits[Len(bits)]

\* the digits in base 8192 of the number bits is
RECURSIVE BitDigits(_)
BitDigits(bits) ==
    IF Len(bits) <= 13 THEN <<BitsNat(bits)>>
    ELSE BitDigits(SubSeq(bits, 1, Len(bits) - 13))
             \o <<BitsNat(SubSeq(bits, Len(bits) - 12, Len(bits)))>>

\* the first n digits of r / b after the point, for 0 <= r < b, and what is
\* left of the dividend
RECURSIVE QuotientDigits(_, _, _)
QuotientDigits(r, b, n) ==
    IF n = 0 THEN [digits |-> <<>>, rest |-> r]
    ELSE LET q == QuotientDigits((r * 8192) % b, b, n - 1)
         IN [digits |-> <<(r * 8192) \div b>> \o q.digits, rest |-> q.rest]

IncrementBits(bits) ==
    LET zeros == {i \in 1..Len(bits) : bits[i] = 0}
    IN IF zeros = {} THEN <<1>> \o [i \in 1..Len(bits) |-> 0]
       ELSE LET k == Greatest(zeros)
            IN SubSeq(bits, 1, k - 1) \o <<1>> \o [i \in 1..(Len(bits) - k) |-> 0]

\* bits (at least MantissaBits + 1 of them, the first one 1) times 2^e,
\* rounded; sticky: something non-zero follows the bits
RoundToDouble(bits, e, sticky) ==
    LET m == SubSeq(bits, 1, MantissaBits)
        guard == bits[MantissaBits + 1]
        rest == sticky \/ \E i \in (MantissaBits + 2)..Len(bits) : bits[i] = 1
        up == guard = 1 /\ (rest \/ m[MantissaBits] = 1)
        r == IF up THEN IncrementBits(m) ELSE m
        shift == e + (Len(bits) - MantissaBits)
    IN IF Len(r) > MantissaBits
       THEN [bits |-> SubSeq(r, 1, MantissaBits), exp |-> shift + 1]
       ELSE [bits |-> r, exp |-> shift]

\* a / b for integers a > 0, b > 0: the quotient to 8 digits after the point
DoubleDiv(a, b) ==
    LET q == QuotientDigits(a % b, b, 8)
    IN RoundToDouble(Significant(NatBits(a \div b) \o DigitBits(q.digits)),
                     0 - 13 * 8, q.rest # 0)

\* digits times c, from the least significant digit on
RECURSIVE TimesDigits(_, _, _)
TimesDigits(digits, c, carry) ==
    IF digits = <<>> THEN <<carry>>
    ELSE LET d == digits[Len(digits)] * c + carry
         IN TimesDigits(SubSeq(digits, 1, Len(digits) - 1), c, d \div 8192)
                \o <<d % 8192>>

\* x * c for a double x and an integer c > 0
DoubleTimes(x, c) ==
    RoundToDouble(Significant(DigitBits(TimesDigits(BitDigits(x.bits), c, 0))) \o <<0>>,
                  x.exp - 1, FALSE)

\* the double `ulps` units in the last place above x
RECURSIVE DoubleAbove(_, _)
DoubleAbove(x, ulps) ==
    IF ulps = 0 THEN x
    ELSE LET r == IncrementBits(x.bits)
         IN DoubleAbove(IF Len(r) > MantissaBits
                        THEN [bits |-> SubSeq(r, 1, MantissaBits), exp |-> x.exp + 1]
                        ELSE [bits |-> r, exp |-> x.exp],
                        ulps - 1)

\* a >= b for significands of one length
BitsAtLeast(a, b) ==
    LET differ == {i \in 1..Len(a) : a[i] # b[i]}
    IN differ = {} \/ a[Least(differ)] = 1

\* x >= y
DoubleAtLeast(x, y) ==
    \/ x.exp > y.exp
    \/ x.exp = y.exp /\ BitsAtLeast(x.bits, y.bits)

\* the number a threshold with num > 0 is
ThresholdDouble(threshold) ==
    DoubleAbove(DoubleDiv(threshold.num, threshold.den), threshold.ulps)

\* mutant: the comparison with the threshold is strict
UsageAtLeast_strict(tokens, opts) ==
    IF opts.contextWindowSize > 0
    THEN tokens * opts.threshold.den > opts.threshold.num * opts.contextWindowSize
    ELSE IF opts.contextWindowSize < 0
    THEN tokens * opts.threshold.den < opts.threshold.num * opts.contextWindowSize
    ELSE TRUE

\* tokens / contextWindowSize >= threshold, on the quotient the division
\* yields (a division by zero yields +Infinity, the estimate being positive).
\* Two distinct ratios of integers this small are never rounded to one
\* double, so a threshold that is a decimal is compared exactly; a threshold
\* that is not is compared as doubles.
UsageAtLeast(tokens, opts) ==
    IF opts.threshold.ulps # 0 /\ opts.contextWindowSize > 0 /\ opts.threshold.num > 0
    THEN DoubleAtLeast(DoubleDiv(tokens, opts.contextWindowSize),
                       ThresholdDouble(opts.threshold))
    ELSE IF opts.contextWindowSize > 0
    THEN tokens * opts.threshold.den >= opts.threshold.num * opts.contextWindowSize
    ELSE IF opts.contextWindowSize < 0
    THEN tokens * opts.threshold.den <= opts.threshold.num * opts.contextWindowSize
    ELSE TRUE

shouldCompact(messages, opts) == UsageAtLeast(estimateTokens(messages), opts)

\* handlerStatus: `ratio >= this.options.threshold * 100` with
\* `ratio = (tokens / this.options.contextWindowSize) * 100`.  With a window
\* or a threshold that is not positive no rounding changes the order.
StatusRecommends(tokens, opts) ==
    IF opts.contextWindowSize > 0 /\ opts.threshold.num > 0
    THEN DoubleAtLeast(DoubleTimes(DoubleDiv(tokens, opts.contextWindowSize), 100),
                       DoubleTimes(ThresholdDouble(opts.threshold), 100))
    ELSE UsageAtLeast(tokens, opts)

\* ---------------------------------------------------------------- partition
\* Array.prototype.slice(start, end) for 0 <= start, 0 <= end
Slice(s, start, end) ==
    LET e == IF end > Len(s) THEN Len(s) ELSE end
    IN IF start >= e THEN <<>> ELSE SubSeq(s, start + 1, e)

RECURSIVE LeadingSystemCount(_)
LeadingSystemCount(messages) ==
    IF messages = <<>> \/ Head(messages).role # "system" THEN 0
    ELSE 1 + LeadingSystemCount(Tail(messages))

\* the loop of compactMessages: nonSystemMessages is reassigned only when a
\* non-system message is met
SplitSystem(messages) ==
    LET k == LeadingSystemCount(messages)
    IN [systemMessages |-> Slice(messages, 0, k),
        nonSystemMessages |-> IF k < Len(messages)
                              THEN Slice(messages, k, Len(messages))
                              ELSE messages]

\* mutant: the split is one message early
SplitRecent_early(nonSystemMessages, preserveRecentCount) ==
    IF Len(nonSystemMessages) > preserveRecentCount
    THEN LET splitIndex == Len(nonSystemMessages) - preserveRecentCount - 1
         IN [middleMessages |-> Slice(nonSystemMessages, 0, splitIndex),
             recentMessages |-> Slice(nonSystemMessages, splitIndex,
                                      Len(nonSystemMessages))]
    ELSE [middleMessages |-> <<>>, recentMessages |-> nonSystemMessages]

SplitRecent(nonSystemMessages, preserveRecentCount) ==
    IF Len(nonSystemMessages) > preserveRecentCount
    THEN LET splitIndex == Len(nonSystemMessages) - preserveRecentCount
         IN [middleMessages |-> Slice(nonSystemMessages, 0, splitIndex),
             recentMessages |-> Slice(nonSystemMessages, splitIndex,
                                      Len(nonSystemMessages))]
    ELSE [middleMessages |-> <<>>, recentMessages |-> nonSystemMessages]

Partition(messages, opts) ==
    LET s == SplitSystem(messages)
        r == SplitRecent(s.nonSystemMessages, opts.preserveRecentCount)
    IN [systemMessages |-> s.systemMessages,
        middleMessages |-> r.middleMessages,
        recentMessages |-> r.recentMessages]

\* ---------------------------------------------------------------- options
OptionFields == {"contextWindowSize", "threshold", "preserveRecentCount"}

DefaultContextWindowSize == 128000

DefaultThreshold == Threshold(7, 10)

DefaultPreserveRecentCount == 4

\* `supplied.f || default`: an omitted field and a falsy (zero) value both
\* give the default
OrDefault(supplied, f, isFalsy, default) ==
    IF f \in DOMAIN supplied /\ ~isFalsy THEN supplied[f] ELSE default

ContextCompactor(supplied) ==
    [contextWindowSize |->
        OrDefault(supplied, "contextWindowSize",
                  "contextWindowSize" \in DOMAIN supplied
                      /\ supplied["contextWindowSize"] = 0,
                  DefaultContextWindowSize),
     threshold |->
        OrDefault(supplied, "threshold",
                  "threshold" \in DOMAIN supplied /\ supplied["threshold"].num = 0,
                  DefaultThreshold),
     preserveRecentCount |->
        OrDefault(supplied, "preserveRecentCount",
                  "preserveRecentCount" \in DOMAIN supplied
                      /\ supplied["preserveRecentCount"] = 0,
                  DefaultPreserveRecentCount)]

\* { ...this.options, ...options }
updateOptions(opts, supplied) ==
    [f \in OptionFields |-> IF f \in DOMAIN supplied THEN supplied[f] ELSE opts[f]]

\* ---------------------------------------------------------------- session manager
\* mutant: the current session is preferred to the one that is named
ResolveSessionId_currentFirst(sessionId) ==
    IF currentSessionId # Null THEN currentSessionId ELSE sessionId

\* `sessionId || this.currentSessionId`
ResolveSessionId(sessionId) ==
    IF sessionId \notin {Null, ""} THEN sessionId ELSE currentSessionId

hasSession(id) == id \in DOMAIN sessions

getMessages(sessionId) ==
    LET id == ResolveSessionId(sessionId)
    IN IF id # Null /\ hasSession(id) THEN sessions[id] ELSE <<>>

\* addMessage and replaceMessages throw unless the id resolves to a session
SessionWritable(sessionId) ==
    LET id == ResolveSessionId(sessionId)
    IN id # Null /\ hasSession(id)

addMessage(message, sessionId) ==
    LET id == ResolveSessionId(sessionId)
    IN [sessions EXCEPT ![id] = Append(@, message)]

replaceMessages(messages, sessionId) ==
    LET id == ResolveSessionId(sessionId)
    IN [sessions EXCEPT ![id] = messages]

\* the metadata of a session: updatedAt is the time of its creation, a later
\* time, or the time a session file holds
CreatedMetadata == [updatedAt |-> "createdAt"]

\* session.metadata.updatedAt = new Date() of addMessage and replaceMessages
touch(sessionId) ==
    LET id == ResolveSessionId(sessionId)
    IN [metadata EXCEPT ![id] = [@ EXCEPT !.updatedAt = "later"]]


\* ---------------------------------------------------------------- compactMessages
NoOpResult(messages, originalTokens) ==
    [compacted |-> FALSE,
     originalCount |-> Len(messages),
     compactedCount |-> Len(messages),
     originalTokens |-> originalTokens,
     compactedTokens |-> originalTokens,
     messages |-> messages]

\* mutant: the negation of shouldCompact is lost
BelowThresholdReturn_inverted(messages, force, opts) ==
    ~force /\ shouldCompact(messages, opts)

\* the early return on the threshold (skipped when forced)
BelowThresholdReturn(messages, force, opts) ==
    ~force /\ ~shouldCompact(messages, opts)

\* compactMessages reaches `await this.summarizeMessages(middleMessages)`
ReachesSummarize(messages, force, opts) ==
    /\ ~BelowThresholdReturn(messages, force, opts)
    /\ Len(Partition(messages, opts).middleMessages) # 0

CompactedMessages(systemMessages, summary, recentMessages) ==
    systemMessages \o <<SystemMessage(WrapSummary(summary))>> \o recentMessages

CompactedResult(messages, originalTokens, compactedMessages) ==
    [compacted |-> TRUE,
     originalCount |-> Len(messages),
     compactedCount |-> Len(compactedMessages),
     originalTokens |-> originalTokens,
     compactedTokens |-> estimateTokens(compactedMessages),
     messages |-> compactedMessages]

\* ---------------------------------------------------------------- summaries
\* the conversation text a summarization request carries, as its lines
\* `${role}: ${content}`
RoleLabel(type) ==
    CASE type = "human" -> "User"
      [] type = "ai" -> "Assistant"
      [] type = "system" -> "System"
      [] type = "tool" -> "Tool"
      [] OTHER -> "Unknown"

ConversationLine(label, m) == [role |-> label, content |-> m.content]

\* summarizeMessages: every message it is given
summarizeMessagesConversation(messages) ==
    [i \in 1..Len(messages) |-> ConversationLine(RoleLabel(messages[i].role), messages[i])]

IsSystemMessage(m) == m.role = "system"

NotSystemMessage(m) == ~IsSystemMessage(m)

\* mutant: the system messages are not skipped
summarizeAllMessagesConversation_withSystem(messages) ==
    summarizeMessagesConversation(messages)

\* summarizeAllMessages: the system messages are skipped, and the labels are
\* User, Assistant and Tool
summarizeAllMessagesConversation(messages) ==
    LET spoken == SelectSeq(messages, NotSystemMessage)
    IN [i \in 1..Len(spoken) |->
           ConversationLine(IF spoken[i].role = "system" THEN "Unknown"
                            ELSE RoleLabel(spoken[i].role),
                            spoken[i])]

\* ---------------------------------------------------------------- handlerCompact

IsContextMessage(m) ==
    m.role = "human" /\ m.content.type = "string" /\ m.content.cocoagent

\* mutant: the context-injection messages are not kept
ForcedMessages_noContext(messages, summary) ==
    SelectSeq(messages, IsSystemMessage) \o <<AIMessage(WrapSummary(summary))>>

\* mutant: the context-injection filter does not look at the type
ForcedMessages_anyType(messages, summary) ==
    SelectSeq(messages, IsSystemMessage)
    \o SelectSeq(messages, LAMBDA m : m.content.type = "string" /\ m.content.cocoagent)
    \o <<AIMessage(WrapSummary(summary))>>

ForcedMessages(messages, summary) ==
    SelectSeq(messages, IsSystemMessage)
    \o SelectSeq(messages, IsContextMessage)
    \o <<AIMessage(WrapSummary(summary))>>

\* ---------------------------------------------------------------- state
\* the call in progress or last completed: its arguments (sessionId, force,
\* supplied, the sessionId of the context of a command handler), the messages
\* it read, the stored sessions and the options at the time of the call, and
\* the conversation text it handed to the language model
NoFrame ==
    [op |-> "none", sessionId |-> Null, messages |-> <<>>, force |-> FALSE,
     before |-> <<>>, conversation |-> <<>>, supplied |-> <<>>, previous |-> <<>>,
     context |-> Null]

Void == [type |-> "void"]

Returned(value) == [status |-> "returned", value |-> value]

Threw(message) == [status |-> "threw", value |-> [type |-> "error", message |-> message]]

Pending == [status |-> "pending", value |-> Void]

\* the compactor options the programs of this model construct and set
ConstructorInputs ==
    {[contextWindowSize |-> 36, threshold |-> Threshold(1, 2), preserveRecentCount |-> 1]}

UpdateInputs ==
    {[preserveRecentCount |-> n] : n \in 0..MaxPreserve}

\* the null of the channels userInput and commandResult
NoLine == [kind |-> "null"]

NoResult == [type |-> "null"]

\* the dialog workflow: the node to run next, the promise of app.invoke
\* ("none" while no workflow runs) and the channels of GraphStateWithDialog
NoGraph ==
    [node |-> "off", invoke |-> "none", sessionId |-> Null, iterations |-> 0,
     userInput |-> NoLine, commandResult |-> NoResult, shouldClose |-> FALSE]

Init ==
    /\ sessions = [id \in {"s1"} |-> <<>>]
    /\ metadata = [id \in {"s1"} |-> CreatedMetadata]
    /\ currentSessionId = "s1"
    /\ \E supplied \in ConstructorInputs : options = ContextCompactor(supplied)
    /\ pc = "idle"
    /\ frame = NoFrame
    /\ outcome = Returned(Void)
    /\ delegateCalls = 0
    /\ graph = NoGraph

\* sessionManager.addMessage(message, sessionId)
AddMessage(message, sessionId) ==
    /\ pc = "idle"
    /\ Len(getMessages(sessionId)) < MaxHistory
    /\ frame' = [NoFrame EXCEPT !.op = "addMessage", !.sessionId = sessionId,
                                 !.before = sessions]
    /\ delegateCalls' = 0
    /\ IF SessionWritable(sessionId)
       THEN /\ sessions' = addMessage(message, sessionId)
            /\ outcome' = Returned(Void)
       ELSE /\ sessions' = sessions
            /\ outcome' = Threw("no session")
    /\ metadata' = IF SessionWritable(sessionId) THEN touch(sessionId) ELSE metadata
    /\ UNCHANGED <<currentSessionId, options, pc, graph>>

\* compactor.updateOptions(supplied)
UpdateOptions(supplied) ==
    /\ pc = "idle"
    /\ options' = updateOptions(options, supplied)
    /\ frame' = [NoFrame EXCEPT !.op = "updateOptions", !.before = sessions,
                                 !.supplied = supplied, !.previous = options]
    /\ outcome' = Returned(Void)
    /\ delegateCalls' = 0
    /\ UNCHANGED <<sessions, metadata, currentSessionId, pc, graph>>

\* compactor.shouldCompact(messages) on the messages of a session
ShouldCompactCall(sessionId) ==
    /\ pc = "idle"
    /\ LET messages == getMessages(sessionId)
       IN /\ frame' = [NoFrame EXCEPT !.op = "shouldCompact",
                                      !.sessionId = sessionId,
                                      !.messages = messages,
                                      !.before = sessions]
          /\ outcome' = Returned([type |-> "boolean",
                                  value |-> shouldCompact(messages, options)])
    /\ delegateCalls' = 0
    /\ UNCHANGED <<sessions, metadata, currentSessionId, options, pc, graph>>

\* mutant: the summary is requested before the partition is looked at
CompactMessagesCall_summarizeFirst(op, sessionId, force) ==
    /\ pc = "idle"
    /\ Len(getMessages(sessionId)) <= MaxHistory
    /\ op = "compactNode" => ~force
    /\ LET messages == getMessages(sessionId)
           originalTokens == estimateTokens(messages)
       IN /\ frame' = [NoFrame EXCEPT
                          !.op = op, !.sessionId = sessionId, !.messages = messages,
                          !.force = force, !.before = sessions,
                          !.conversation =
                              IF ~BelowThresholdReturn(messages, force, options)
                              THEN summarizeMessagesConversation(
                                       Partition(messages, options).middleMessages)
                              ELSE <<>>]
          /\ IF ReachesSummarize(messages, force, options)
             THEN /\ pc' = "summarizeMessages"
                  /\ outcome' = Pending
                  /\ delegateCalls' = 1
             ELSE /\ pc' = "idle"
                  /\ outcome' = Returned(NoOpResult(messages, originalTokens))
                  /\ delegateCalls' =
                         IF BelowThresholdReturn(messages, force, options) THEN 0 ELSE 1
    /\ UNCHANGED <<sessions, metadata, currentSessionId, options, graph>>

\* compactMessages up to its return or to the await of the summary.  op is
\* "compactMessages" for a call of compactor.compactMessages(messages, force)
\* on the messages of a session, "compactNode" for the compact node
\* (which calls it without force).
CompactMessagesCall(op, sessionId, force) ==
    /\ pc = "idle"
    /\ Len(getMessages(sessionId)) <= MaxHistory
    /\ op = "compactNode" => ~force
    /\ LET messages == getMessages(sessionId)
           originalTokens == estimateTokens(messages)
       IN /\ frame' = [NoFrame EXCEPT
                          !.op = op, !.sessionId = sessionId, !.messages = messages,
                          !.force = force, !.before = sessions,
                          !.conversation =
                              IF ReachesSummarize(messages, force, options)
                              THEN summarizeMessagesConversation(
                                       Partition(messages, options).middleMessages)
                              ELSE <<>>]
          /\ IF ReachesSummarize(messages, force, options)
             THEN /\ pc' = "summarizeMessages"
                  /\ outcome' = Pending
                  /\ delegateCalls' = 1
             ELSE /\ pc' = "idle"
                  /\ outcome' = Returned(NoOpResult(messages, originalTokens))
                  /\ delegateCalls' = 0
    /\ UNCHANGED <<sessions, metadata, currentSessionId, options, graph>>

\* mutant: the compact node stores nothing
CompactNodeCommit_never(result, sessionId) == sessions

\* the compact node stores the result when result.compacted
CompactNodeCommit(result, sessionId) ==
    IF result.compacted THEN replaceMessages(result.messages, sessionId) ELSE sessions

\* the summary arrives: compactMessages builds its result and returns
SummarizeMessagesReturn(summary) ==
    /\ pc = "summarizeMessages"
    /\ LET p == Partition(frame.messages, options)
           compactedMessages ==
               CompactedMessages(p.systemMessages, summary, p.recentMessages)
           result == CompactedResult(frame.messages, estimateTokens(frame.messages),
                                     compactedMessages)
       IN /\ outcome' = Returned(result)
          /\ sessions' = IF frame.op = "compactNode"
                         THEN CompactNodeCommit(result, frame.sessionId)
                         ELSE sessions
    /\ pc' = "idle"
    /\ metadata' = IF frame.op = "compactNode" THEN touch(frame.sessionId) ELSE metadata
    /\ UNCHANGED <<currentSessionId, options, frame, delegateCalls, graph>>

\* mutant: the session is overwritten with the preserved messages before the
\* summary is awaited
HandlerCompactCall_early(contextSessionId) ==
    /\ pc = "idle"
    /\ Len(getMessages(contextSessionId)) <= MaxHistory
    /\ LET sessionId == ResolveSessionId(contextSessionId)
           messages == getMessages(sessionId)
       IN /\ frame' = [NoFrame EXCEPT
                          !.op = "handlerCompact", !.sessionId = sessionId,
                          !.messages = messages, !.force = TRUE, !.before = sessions,
                          !.context = contextSessionId,
                          !.conversation = summarizeAllMessagesConversation(messages)]
          /\ sessions' = IF SessionWritable(sessionId)
                         THEN replaceMessages(
                                  SelectSeq(messages, IsSystemMessage)
                                      \o SelectSeq(messages, IsContextMessage),
                                  sessionId)
                         ELSE sessions
    /\ pc' = "summarizeAllMessages"
    /\ outcome' = Pending
    /\ delegateCalls' = 1
    /\ metadata' = IF SessionWritable(ResolveSessionId(contextSessionId))
                   THEN touch(ResolveSessionId(contextSessionId)) ELSE metadata
    /\ UNCHANGED <<currentSessionId, options, graph>>

\* mutant: the handler compacts only a history that is due
HandlerCompactCall_thresholded(contextSessionId) ==
    /\ pc = "idle"
    /\ Len(getMessages(contextSessionId)) <= MaxHistory
    /\ LET sessionId == ResolveSessionId(contextSessionId)
           messages == getMessages(sessionId)
       IN /\ frame' = [NoFrame EXCEPT
                          !.op = "handlerCompact", !.sessionId = sessionId,
                          !.messages = messages, !.force = TRUE, !.before = sessions,
                          !.context = contextSessionId,
                          !.conversation = summarizeAllMessagesConversation(messages)]
          /\ IF shouldCompact(messages, options)
             THEN /\ pc' = "summarizeAllMessages"
                  /\ outcome' = Pending
                  /\ delegateCalls' = 1
             ELSE /\ pc' = "idle"
                  /\ outcome' = Returned([type |-> "executed"])
                  /\ delegateCalls' = 0
    /\ UNCHANGED <<sessions, metadata, currentSessionId, options, graph>>

\* the handler registered for /compact, up to the await of the summary
HandlerCompactCall(contextSessionId) ==
    /\ pc = "idle"
    /\ Len(getMessages(contextSessionId)) <= MaxHistory
    /\ LET sessionId == ResolveSessionId(contextSessionId)
           messages == getMessages(sessionId)
       IN frame' = [NoFrame EXCEPT
                       !.op = "handlerCompact", !.sessionId = sessionId,
                       !.messages = messages, !.force = TRUE, !.before = sessions,
                       !.context = contextSessionId,
                       !.conversation = summarizeAllMessagesConversation(messages)]
    /\ pc' = "summarizeAllMessages"
    /\ outcome' = Pending
    /\ delegateCalls' = 1
    /\ UNCHANGED <<sessions, metadata, currentSessionId, options, graph>>

\* the summary arrives: the handler overwrites the session and returns
HandlerCompactReturn(summary) ==
    /\ pc = "summarizeAllMessages"
    /\ LET newMessages == ForcedMessages(frame.messages, summary)
       IN IF SessionWritable(frame.sessionId)
          THEN /\ sessions' = replaceMessages(newMessages, frame.sessionId)
               /\ outcome' = Returned([type |-> "executed"])
          ELSE /\ sessions' = sessions
               /\ outcome' = Threw("no session")
    /\ pc' = "idle"
    /\ metadata' = IF SessionWritable(frame.sessionId) THEN touch(frame.sessionId) ELSE metadata
    /\ UNCHANGED <<currentSessionId, options, frame, delegateCalls, graph>>

\* model.invoke rejects: the error leaves summarizeMessages / summarizeAllMessages
\* and the function awaiting it
SummarizeFails ==
    /\ pc \in {"summarizeMessages", "summarizeAllMessages"}
    /\ pc' = "idle"
    /\ outcome' = Threw("model")
    /\ UNCHANGED <<sessions, metadata, currentSessionId, options, frame, delegateCalls, graph>>

\* (the compact command runs with a context that names another session than
\* the current one, or none; SpecSessions has every context)
Next ==
    \/ \E m \in MessageInputs, sid \in SessionIds : AddMessage(m, sid)
    \/ \E supplied \in UpdateInputs : UpdateOptions(supplied)
    \/ \E sid \in DOMAIN sessions : ShouldCompactCall(sid)
    \/ \E op \in {"compactMessages", "compactNode"}, sid \in DOMAIN sessions, force \in BOOLEAN :
          CompactMessagesCall(op, sid, force)
    \/ \E summary \in DelegateReplies : SummarizeMessagesReturn(summary)
    \/ \E sid \in (SessionIds \ {currentSessionId}) \cup {Null} : HandlerCompactCall(sid)
    \/ \E summary \in DelegateReplies : HandlerCompactReturn(summary)
    \/ SummarizeFails

Spec == Init /\ [][Next]_vars

\* ---------------------------------------------------------------- compact twice
\* the replies of the language model to the summarization requests of the
\* compact command; a summary may mention cocoagent.md
RepeatReplies ==
    {[tokens |-> t, cocoagent |-> c] : t \in 1..MaxSummaryTokens, c \in BOOLEAN}

\* the compact command has just run to its end
CompactCommandDone ==
    /\ frame.op = "handlerCompact"
    /\ pc = "idle"
    /\ outcome = Returned([type |-> "executed"])

\* the compact command is run again, with the same context, right after it
\* has run: the frame keeps the history before the first run and the one it
\* left
HandlerCompactRepeat ==
    /\ CompactCommandDone
    /\ LET sessionId == ResolveSessionId(frame.context)
           messages == getMessages(sessionId)
       IN frame' = [NoFrame EXCEPT
                       !.op = "handlerCompact", !.sessionId = sessionId,
                       !.messages = messages, !.force = TRUE, !.before = sessions,
                       !.context = frame.context,
                       !.conversation = summarizeAllMessagesConversation(messages),
                       !.previous = [messages |-> frame.messages,
                                     result |-> sessions[frame.sessionId]]]
    /\ pc' = "summarizeAllMessages"
    /\ outcome' = Pending
    /\ delegateCalls' = 1
    /\ UNCHANGED <<sessions, metadata, currentSessionId, options, graph>>

NextTwice ==
    \/ \E m \in MessageInputs : AddMessage(m, Null)
    \/ HandlerCompactCall(Null)
    \/ HandlerCompactRepeat
    \/ \E summary \in RepeatReplies : HandlerCompactReturn(summary)
    \/ SummarizeFails

SpecTwice == Init /\ [][NextTwice]_vars

\* ---------------------------------------------------------------- estimate and status
\* compactor.estimateTokens(messages) on the messages of a session
EstimateTokensCall(sessionId) ==
    /\ pc = "idle"
    /\ LET messages == getMessages(sessionId)
       IN /\ frame' = [NoFrame EXCEPT !.op = "estimateTokens",
                                      !.sessionId = sessionId,
                                      !.messages = messages,
                                      !.before = sessions]
          /\ outcome' = Returned([type |-> "number",
                                  value |-> estimateTokens(messages)])
    /\ delegateCalls' = 0
    /\ UNCHANGED <<sessions, metadata, currentSessionId, options, pc, graph>>

\* the handler registered for /status: it prints the state of the session
\* (console.recommend: it printed "압축 권장") and returns
HandlerStatusCall(contextSessionId) ==
    /\ pc = "idle"
    /\ LET sessionId == ResolveSessionId(contextSessionId)
           messages == getMessages(sessionId)
           tokens == estimateTokens(messages)
       IN /\ frame' = [NoFrame EXCEPT !.op = "handlerStatus",
                                      !.sessionId = sessionId,
                                      !.messages = messages,
                                      !.before = sessions,
                                      !.context = contextSessionId,
                                      !.previous = options]
          /\ outcome' = [status |-> "returned",
                         value |-> [type |-> "executed"],
                         console |-> [recommend |-> StatusRecommends(tokens, options)]]
    /\ delegateCalls' = 0
    /\ UNCHANGED <<sessions, metadata, currentSessionId, options, pc, graph>>

\* the contents the estimator tells apart: strings, and arrays of image parts
\* (detail low, high, auto or absent) and text parts
ImagePart(detail) == [type |-> "image_url", detail |-> detail]

TextPart(tokens) == [type |-> "text", tokens |-> tokens]

ArrayContent(items) == [type |-> "array", items |-> items]

EstimatorMessageInputs ==
    {ToolMessage(StringContent(0, FALSE, FALSE)),
     HumanMessage(StringContent(1, FALSE, FALSE)),
     HumanMessage(ArrayContent(<<ImagePart("low")>>)),
     HumanMessage(ArrayContent(<<TextPart(1), ImagePart("high")>>)),
     HumanMessage(ArrayContent(<<ImagePart("auto"), ImagePart("low")>>)),
     ToolMessage(ArrayContent(<<ImagePart(Null)>>))}

\* the options of the compactors whose status is asked for
StatusConstructorInputs ==
    {[contextWindowSize |-> 100, threshold |-> Threshold(7, 10)],
     [contextWindowSize |-> 10, threshold |-> ThresholdAbove(7, 10, 1)]}

InitStatus ==
    /\ sessions = [id \in {"s1"} |-> <<>>]
    /\ metadata = [id \in {"s1"} |-> CreatedMetadata]
    /\ currentSessionId = "s1"
    /\ \E supplied \in StatusConstructorInputs : options = ContextCompactor(supplied)
    /\ pc = "idle"
    /\ frame = NoFrame
    /\ outcome = Returned(Void)
    /\ delegateCalls = 0
    /\ graph = NoGraph

NextStatus ==
    \/ \E m \in EstimatorMessageInputs : AddMessage(m, "s1")
    \/ \E sid \in DOMAIN sessions : EstimateTokensCall(sid)
    \/ \E sid \in DOMAIN sessions \cup {Null} : HandlerStatusCall(sid)
    \/ \E sid \in DOMAIN sessions : ShouldCompactCall(sid)

SpecStatus == InitStatus /\ [][NextStatus]_vars

\* ---------------------------------------------------------------- sessions
\* sessionManager.createSession(sessionId): a session without messages is
\* stored under the id (or under a generated one, which no session has) and
\* becomes the current one
CreateSession(sessionId) ==
    /\ pc = "idle"
    /\ sessionId = Null => SessionIds \ DOMAIN sessions # {}
    /\ \E id \in SessionIds :
          /\ IF sessionId # Null THEN id = sessionId ELSE id \notin DOMAIN sessions
          /\ sessions' = [k \in DOMAIN sessions \cup {id} |->
                              IF k = id THEN <<>> ELSE sessions[k]]
          /\ metadata' = [k \in DOMAIN sessions \cup {id} |->
                              IF k = id THEN CreatedMetadata ELSE metadata[k]]
          /\ currentSessionId' = id
          /\ outcome' = Returned([type |-> "string", value |-> id])
    /\ frame' = [NoFrame EXCEPT !.op = "createSession", !.sessionId = sessionId,
                                 !.before = sessions]
    /\ delegateCalls' = 0
    /\ UNCHANGED <<options, pc, graph>>

\* sessionManager.setCurrentSession(sessionId)
SetCurrentSession(sessionId) ==
    /\ pc = "idle"
    /\ currentSessionId' = IF hasSession(sessionId) THEN sessionId ELSE currentSessionId
    /\ frame' = [NoFrame EXCEPT !.op = "setCurrentSession", !.sessionId = sessionId,
                                 !.before = sessions]
    /\ outcome' = Returned([type |-> "boolean", value |-> hasSession(sessionId)])
    /\ delegateCalls' = 0
    /\ UNCHANGED <<sessions, metadata, options, pc, graph>>

\* the messages the callers add to the sessions of this model
SessionMessageInputs == {HumanMessage(StringContent(1, FALSE, FALSE))}

\* a session manager without a session, and the compactor of sample-05
InitSessions ==
    /\ sessions = <<>>
    /\ metadata = <<>>
    /\ currentSessionId = Null
    /\ \E supplied \in ConstructorInputs : options = ContextCompactor(supplied)
    /\ pc = "idle"
    /\ frame = NoFrame
    /\ outcome = Returned(Void)
    /\ delegateCalls = 0
    /\ graph = NoGraph

NextSessions ==
    \/ \E sid \in SessionIds \cup {Null} : CreateSession(sid)
    \/ \E sid \in SessionIds : SetCurrentSession(sid)
    \/ \E m \in SessionMessageInputs, sid \in SessionIds \cup {Null} : AddMessage(m, sid)
    \/ \E sid \in SessionIds \cup {Null} : HandlerCompactCall(sid)
    \/ \E summary \in DelegateReplies : HandlerCompactReturn(summary)
    \/ SummarizeFails
    \/ \E sid \in SessionIds \cup {Null} : HandlerStatusCall(sid)

SpecSessions == InitSessions /\ [][NextSessions]_vars

\* ---------------------------------------------------------------- session store
\* the ids the callers of the session manager pass: the ids of this model,
\* none, and the empty string
StoreIdInputs == SessionIds \cup {Null, ""}

\* mutant: a session that is missing under the id is created
ReplaceMessages_upsert(messages, sessionId) ==
    /\ pc = "idle"
    /\ frame' = [NoFrame EXCEPT !.op = "replaceMessages", !.sessionId = sessionId]
    /\ delegateCalls' = 0
    /\ LET id == ResolveSessionId(sessionId)
       IN IF id # Null
          THEN /\ sessions' = [k \in DOMAIN sessions \cup {id} |->
                                  IF k = id THEN messages ELSE sessions[k]]
               /\ metadata' = [k \in DOMAIN sessions \cup {id} |->
                                  [updatedAt |-> IF k = id THEN "later"
                                                 ELSE metadata[k].updatedAt]]
               /\ outcome' = Returned(Void)
          ELSE /\ sessions' = sessions
               /\ metadata' = metadata
               /\ outcome' = Threw("no session")
    /\ UNCHANGED <<currentSessionId, options, pc, graph>>

\* sessionManager.replaceMessages(messages, sessionId)
ReplaceMessages(messages, sessionId) ==
    /\ pc = "idle"
    /\ frame' = [NoFrame EXCEPT !.op = "replaceMessages", !.sessionId = sessionId]
    /\ delegateCalls' = 0
    /\ IF SessionWritable(sessionId)
       THEN /\ sessions' = replaceMessages(messages, sessionId)
            /\ metadata' = touch(sessionId)
            /\ outcome' = Returned(Void)
       ELSE /\ sessions' = sessions
            /\ metadata' = metadata
            /\ outcome' = Threw("no session")
    /\ UNCHANGED <<currentSessionId, options, pc, graph>>

\* sessionManager.getMessages(sessionId)
GetMessagesCall(sessionId) ==
    /\ pc = "idle"
    /\ frame' = [NoFrame EXCEPT !.op = "getMessages", !.sessionId = sessionId]
    /\ outcome' = Returned([type |-> "messages", messages |-> getMessages(sessionId)])
    /\ delegateCalls' = 0
    /\ UNCHANGED <<sessions, metadata, currentSessionId, options, pc, graph>>

\* sessionManager.clearSession(sessionId)
ClearSession(sessionId) ==
    /\ pc = "idle"
    /\ frame' = [NoFrame EXCEPT !.op = "clearSession", !.sessionId = sessionId]
    /\ outcome' = Returned(Void)
    /\ delegateCalls' = 0
    /\ IF SessionWritable(sessionId)
       THEN /\ sessions' = replaceMessages(<<>>, sessionId)
            /\ metadata' = touch(sessionId)
       ELSE UNCHANGED <<sessions, metadata>>
    /\ UNCHANGED <<currentSessionId, options, pc, graph>>

Without(store, sessionId) == [k \in DOMAIN store \ {sessionId} |-> store[k]]

\* mutant: the current session id survives the session
DeleteSession_keepsCurrent(sessionId) ==
    /\ pc = "idle"
    /\ frame' = [NoFrame EXCEPT !.op = "deleteSession", !.sessionId = sessionId]
    /\ outcome' = Returned([type |-> "boolean", value |-> hasSession(sessionId)])
    /\ delegateCalls' = 0
    /\ sessions' = Without(sessions, sessionId)
    /\ metadata' = Without(metadata, sessionId)
    /\ UNCHANGED <<currentSessionId, options, pc, graph>>

\* sessionManager.deleteSession(sessionId)
DeleteSession(sessionId) ==
    /\ pc = "idle"
    /\ frame' = [NoFrame EXCEPT !.op = "deleteSession", !.sessionId = sessionId]
    /\ outcome' = Returned([type |-> "boolean", value |-> hasSession(sessionId)])
    /\ delegateCalls' = 0
    /\ sessions' = Without(sessions, sessionId)
    /\ metadata' = Without(metadata, sessionId)
    /\ currentSessionId' = IF hasSession(sessionId) /\ currentSessionId = sessionId
                           THEN Null ELSE currentSessionId
    /\ UNCHANGED <<options, pc, graph>>

\* the message loadSession restores from a stored { type, content }
RestoredMessage(stored) ==
    IF stored.type = "human" THEN HumanMessage(stored.content)
    ELSE IF stored.type = "ai" THEN AIMessage(stored.content)
    ELSE IF stored.type = "system" THEN SystemMessage(stored.content)
    ELSE IF stored.type = "tool"
    THEN [role |-> "tool", content |-> stored.content, tool_call_id |-> ""]
    ELSE HumanMessage(stored.content)

\* what readFile and JSON.parse give loadSession: an error, or the data of a
\* session that saveSession has written (under its own id, or copied from
\* the file of another session)
SessionFiles ==
    {[kind |-> "error"]}
        \cup {[kind |-> "session", id |-> id, messages |-> messages] :
                 id \in SessionIds,
                 messages \in {<<>>, <<[type |-> "ai", content |-> StringContent(2, FALSE, FALSE)]>>}}

\* sessionManager.loadSession(sessionId), the file being what the file
\* system holds under the id
LoadSession(sessionId, file) ==
    /\ pc = "idle"
    /\ frame' = [NoFrame EXCEPT !.op = "loadSession", !.sessionId = sessionId]
    /\ delegateCalls' = 0
    /\ IF file.kind = "error"
       THEN /\ outcome' = Returned([type |-> "boolean", value |-> FALSE])
            /\ UNCHANGED <<sessions, metadata, currentSessionId>>
       ELSE /\ outcome' = Returned([type |-> "boolean", value |-> TRUE])
            /\ sessions' = [k \in DOMAIN sessions \cup {file.id} |->
                               IF k = file.id
                               THEN [i \in 1..Len(file.messages) |->
                                        RestoredMessage(file.messages[i])]
                               ELSE sessions[k]]
            /\ metadata' = [k \in DOMAIN sessions \cup {file.id} |->
                               IF k = file.id THEN [updatedAt |-> "file"]
                               ELSE metadata[k]]
            /\ currentSessionId' = file.id
    /\ UNCHANGED <<options, pc, graph>>

NextStore ==
    \/ \E sid \in SessionIds \cup {Null} : CreateSession(sid)
    \/ \E sid \in SessionIds : SetCurrentSession(sid)
    \/ \E sid \in SessionIds : DeleteSession(sid)
    \/ \E sid \in StoreIdInputs : ClearSession(sid)
    \/ \E m \in SessionMessageInputs, sid \in StoreIdInputs : AddMessage(m, sid)
    \/ \E messages \in {<<>>, <<AIMessage(StringContent(1, FALSE, FALSE))>>},
          sid \in StoreIdInputs :
           ReplaceMessages(messages, sid)
    \/ \E sid \in SessionIds, file \in SessionFiles : LoadSession(sid, file)
    \/ \E sid \in StoreIdInputs : GetMessagesCall(sid)

SpecStore == InitSessions /\ [][NextStore]_vars

\* ---------------------------------------------------------------- commands
END == "__end__"

LambdaCommands == {"compact", "status", "close"}

\* the commands loaded from the command files
TemplateCommands == {"review"}

\* what the user types at the prompt, trimmed: nothing, a message, or
\* `/name` (registered or not)
EmptyLine == [kind |-> "empty"]

TextLine == [kind |-> "text", content |-> StringContent(1, FALSE, FALSE)]

CommandLine(commandName) == [kind |-> "command", commandName |-> commandName, args |-> ""]

UserLines ==
    {EmptyLine, TextLine}
        \cup {CommandLine(c) : c \in LambdaCommands \cup TemplateCommands \cup {"nope"}}

isCommand(input) == input.kind = "command"

ErrorResult(message) == [type |-> "error", message |-> message]

\* the prompt a template command expands to
TemplatePrompt(commandName, args) ==
    [type |-> "prompt", message |-> StringContent(1, FALSE, FALSE)]

\* createParseInputNode: the update of commandResult (userInput is not null)
parseInput(userInput) ==
    IF ~isCommand(userInput) THEN NoResult
    ELSE [type |-> "parsed", commandName |-> userInput.commandName,
          args |-> userInput.args]

\* createRouteInput, with the edge map of createAgent
routeInput(commandResult) ==
    IF commandResult = NoResult THEN "addUserMessage" ELSE "handleCommand"

\* mutant: an error result is handed to the agent
routeCommand_errorToAgent(result) ==
    IF result.type = "close" THEN END
    ELSE IF result.type = "error" THEN "addMessage"
    ELSE IF result.type = "executed" THEN "getUserInput"
    ELSE IF result.type = "prompt" THEN "addMessage"
    ELSE "getUserInput"

\* createRouteCommand
routeCommand(result) ==
    IF result.type = "close" THEN END
    ELSE IF result.type = "error" THEN "getUserInput"
    ELSE IF result.type = "executed" THEN "getUserInput"
    ELSE IF result.type = "prompt" THEN "addMessage"
    ELSE "getUserInput"

IsParsed(commandResult) ==
    /\ commandResult # NoResult
    /\ "commandName" \in DOMAIN commandResult
    /\ "args" \in DOMAIN commandResult

\* CommandRegistry.execute for the commands that do not await the model;
\* the handlers of /status and /close return at once
execute(commandName, args) ==
    IF commandName \notin LambdaCommands \cup TemplateCommands
    THEN ErrorResult("command not found")
    ELSE IF commandName \in TemplateCommands THEN TemplatePrompt(commandName, args)
    ELSE IF commandName = "close" THEN [type |-> "close"]
    ELSE [type |-> "executed"]

\* ---------------------------------------------------------------- dialog
maxIterations == 10

DialogHistoryBound == MaxHistory + 2

ToolCalls(m) == IF "tool_calls" \in DOMAIN m THEN m.tool_calls ELSE <<>>

\* the replies of the model to the agent node: a final answer, or a request
\* for one tool call
FinalReply == AIMessage(StringContent(1, FALSE, FALSE))

ToolCallReply ==
    [role |-> "ai", content |-> StringContent(0, FALSE, FALSE),
     tool_calls |-> <<[id |-> "call_1", name |-> "read_file"]>>]

AgentReplies == {FinalReply, ToolCallReply}

\* toolManager.executeTool: one tool message for the call
ToolResult(toolCall) ==
    [role |-> "tool", content |-> StringContent(1, FALSE, FALSE),
     tool_call_id |-> toolCall.id]

\* mutant: the compaction is looked at before the tool calls
shouldContinue_compactFirst(state, messages) ==
    IF state.shouldClose THEN END
    ELSE IF state.iterations >= maxIterations THEN END
    ELSE IF shouldCompact(messages, options) THEN "compact"
    ELSE IF Len(ToolCalls(messages[Len(messages)])) > 0 THEN "tools"
    ELSE "getUserInput"

\* mutant: the bound on the iterations is not looked at
shouldContinue_unbounded(state, messages) ==
    IF state.shouldClose THEN END
    ELSE IF Len(ToolCalls(messages[Len(messages)])) > 0 THEN "tools"
    ELSE IF shouldCompact(messages, options) THEN "compact"
    ELSE "getUserInput"

\* createShouldContinue of the dialog, on the state the agent node left
shouldContinue(state, messages) ==
    IF state.shouldClose THEN END
    ELSE IF state.iterations >= maxIterations THEN END
    ELSE IF Len(ToolCalls(messages[Len(messages)])) > 0 THEN "tools"
    ELSE IF shouldCompact(messages, options) THEN "compact"
    ELSE "getUserInput"

\* the workflow moves to node `next`; reaching END resolves app.invoke
MoveTo(state, next) ==
    [state EXCEPT !.node = next,
                  !.invoke = IF next = END THEN "resolved" ELSE @]

AtNode(name) ==
    /\ graph.invoke = "pending"
    /\ graph.node = name
    /\ pc = "idle"

NodeFrame(name) == [NoFrame EXCEPT !.op = name, !.sessionId = graph.sessionId,
                                   !.before = sessions]

\* the compactors of the dialogs of this model: the one of sample-06, and
\* small ones whose threshold a short dialog reaches
DialogCompactorInputs ==
    {[contextWindowSize |-> 128000, threshold |-> Threshold(7, 10),
      preserveRecentCount |-> 4],
     [contextWindowSize |-> 36, threshold |-> Threshold(1, 2),
      preserveRecentCount |-> 1],
     [contextWindowSize |-> 48, threshold |-> Threshold(1, 2),
      preserveRecentCount |-> 4]}

\* main() up to app.invoke: a new session holding the project context
InitDialog ==
    /\ sessions = [id \in {"s1"} |-> <<HumanMessage(StringContent(2, TRUE, FALSE))>>]
    /\ metadata = [id \in {"s1"} |-> [updatedAt |-> "later"]]
    /\ currentSessionId = "s1"
    /\ \E supplied \in DialogCompactorInputs : options = ContextCompactor(supplied)
    /\ pc = "idle"
    /\ frame = NoFrame
    /\ outcome = Returned(Void)
    /\ delegateCalls = 0
    /\ graph = [node |-> "getUserInput", invoke |-> "pending", sessionId |-> "s1",
                iterations |-> 0, userInput |-> NoLine, commandResult |-> NoResult,
                shouldClose |-> FALSE]

\* a line that adds a message to the session and calls the model; the user
\* enters such lines while the history is short (the answers to one line are
\* bounded by maxIterations)
GrowsHistory(line) ==
    \/ line.kind = "text"
    \/ line.kind = "command" /\ line.commandName \in TemplateCommands

\* getUserInput: the input stream is closed, or the user enters a line
GetUserInputNode(closed, line) ==
    /\ AtNode("getUserInput")
    /\ (~closed /\ GrowsHistory(line)) =>
           Len(getMessages(graph.sessionId)) + 2 <= DialogHistoryBound
    /\ graph' = MoveTo(IF closed \/ line.kind = "empty"
                       THEN [graph EXCEPT !.shouldClose = TRUE]
                       ELSE [graph EXCEPT !.userInput = line, !.iterations = 0],
                       "parseInput")
    /\ frame' = [NodeFrame("getUserInput") EXCEPT
                    !.supplied = IF closed THEN <<>> ELSE <<line>>]
    /\ outcome' = Returned(Void)
    /\ delegateCalls' = 0
    /\ UNCHANGED <<sessions, metadata, currentSessionId, options, pc>>

\* parseInput, then routeInput
ParseInputNode ==
    /\ AtNode("parseInput")
    /\ LET state == IF graph.userInput = NoLine THEN graph
                    ELSE [graph EXCEPT !.commandResult = parseInput(graph.userInput)]
       IN graph' = MoveTo(state, routeInput(state.commandResult))
    /\ frame' = NodeFrame("parseInput")
    /\ outcome' = Returned(Void)
    /\ delegateCalls' = 0
    /\ UNCHANGED <<sessions, metadata, currentSessionId, options, pc>>

\* addUserMessage: the session manager throws when the session is missing
AddUserMessageNode ==
    /\ AtNode("addUserMessage")
    /\ frame' = NodeFrame("addUserMessage")
    /\ delegateCalls' = 0
    /\ IF graph.userInput = NoLine
       THEN /\ sessions' = sessions
            /\ outcome' = Returned(Void)
            /\ graph' = MoveTo(graph, "agent")
       ELSE IF SessionWritable(graph.sessionId)
       THEN /\ sessions' = addMessage(HumanMessage(graph.userInput.content),
                                      graph.sessionId)
            /\ outcome' = Returned(Void)
            /\ graph' = MoveTo(graph, "agent")
       ELSE /\ sessions' = sessions
            /\ outcome' = Threw("no session")
            /\ graph' = [graph EXCEPT !.invoke = "rejected"]
    /\ metadata' = IF graph.userInput # NoLine /\ SessionWritable(graph.sessionId)
                   THEN touch(graph.sessionId) ELSE metadata
    /\ UNCHANGED <<currentSessionId, options, pc>>

\* addMessage: the prompt of a template command joins the session
AddMessageNode ==
    /\ AtNode("addMessage")
    /\ frame' = NodeFrame("addMessage")
    /\ delegateCalls' = 0
    /\ IF graph.commandResult.type # "prompt"
       THEN /\ sessions' = sessions
            /\ outcome' = Returned(Void)
            /\ graph' = MoveTo(graph, "agent")
       ELSE IF SessionWritable(graph.sessionId)
       THEN /\ sessions' = addMessage(HumanMessage(graph.commandResult.message),
                                      graph.sessionId)
            /\ outcome' = Returned(Void)
            /\ graph' = MoveTo(graph, "agent")
       ELSE /\ sessions' = sessions
            /\ outcome' = Threw("no session")
            /\ graph' = [graph EXCEPT !.invoke = "rejected"]
    /\ metadata' = IF graph.commandResult.type = "prompt" /\ SessionWritable(graph.sessionId)
                   THEN touch(graph.sessionId) ELSE metadata
    /\ UNCHANGED <<currentSessionId, options, pc>>

\* agent: the reply of the model joins the session, then shouldContinue
AgentNode(response) ==
    /\ AtNode("agent")
    /\ frame' = NodeFrame("agent")
    /\ delegateCalls' = 0
    /\ IF SessionWritable(graph.sessionId)
       THEN /\ sessions' = addMessage(response, graph.sessionId)
            /\ outcome' = Returned(Void)
            /\ LET state == [graph EXCEPT !.iterations = @ + 1]
               IN graph' = MoveTo(state,
                                  shouldContinue(state,
                                                 Append(getMessages(graph.sessionId),
                                                        response)))
       ELSE /\ sessions' = sessions
            /\ outcome' = Threw("no session")
            /\ graph' = [graph EXCEPT !.invoke = "rejected"]
    /\ metadata' = IF SessionWritable(graph.sessionId) THEN touch(graph.sessionId) ELSE metadata
    /\ UNCHANGED <<currentSessionId, options, pc>>

\* agent: model.invoke rejects, and so does app.invoke
AgentNodeFails ==
    /\ AtNode("agent")
    /\ frame' = NodeFrame("agent")
    /\ outcome' = Threw("model")
    /\ delegateCalls' = 0
    /\ graph' = [graph EXCEPT !.invoke = "rejected"]
    /\ UNCHANGED <<sessions, metadata, currentSessionId, options, pc>>

\* tools: one tool message for each call of the last message
ToolsNode ==
    /\ AtNode("tools")
    /\ LET messages == getMessages(graph.sessionId)
           toolCalls == ToolCalls(messages[Len(messages)])
           toolMessages == [i \in 1..Len(toolCalls) |-> ToolResult(toolCalls[i])]
       IN sessions' = IF Len(toolCalls) = 0 THEN sessions
                      ELSE [sessions EXCEPT ![graph.sessionId] = @ \o toolMessages]
    /\ graph' = MoveTo(graph, "agent")
    /\ frame' = NodeFrame("tools")
    /\ outcome' = Returned(Void)
    /\ delegateCalls' = 0
    /\ metadata' = IF Len(ToolCalls(getMessages(graph.sessionId)[Len(getMessages(graph.sessionId))])) > 0
                   THEN touch(graph.sessionId) ELSE metadata
    /\ UNCHANGED <<currentSessionId, options, pc>>

\* handleCommand, then routeCommand; the handler of /compact is left at the
\* await of the summary
HandleCommandNode ==
    /\ AtNode("handleCommand")
    /\ LET parsed == graph.commandResult
           sessionId == ResolveSessionId(graph.sessionId)
           messages == getMessages(sessionId)
       IN IF ~IsParsed(parsed)
          THEN /\ graph' = MoveTo([graph EXCEPT !.commandResult = ErrorResult("bad state")],
                                  "getUserInput")
               /\ frame' = NodeFrame("handleCommand")
               /\ outcome' = Returned(Void)
               /\ delegateCalls' = 0
               /\ pc' = pc
          ELSE IF parsed.commandName = "compact"
          THEN /\ graph' = graph
               /\ frame' = [NoFrame EXCEPT
                               !.op = "handlerCompact", !.sessionId = sessionId,
                               !.messages = messages, !.force = TRUE,
                               !.before = sessions,
                               !.context = graph.sessionId,
                               !.conversation =
                                   summarizeAllMessagesConversation(messages)]
               /\ outcome' = Pending
               /\ delegateCalls' = 1
               /\ pc' = "summarizeAllMessages"
          ELSE LET result == execute(parsed.commandName, parsed.args)
               IN /\ graph' = MoveTo([graph EXCEPT !.commandResult = result],
                                     routeCommand(result))
                  /\ frame' = IF parsed.commandName = "status"
                              THEN [NoFrame EXCEPT
                                       !.op = "handlerStatus", !.sessionId = sessionId,
                                       !.messages = messages, !.before = sessions,
                                       !.context = graph.sessionId,
                                       !.previous = options]
                              ELSE NodeFrame("handleCommand")
                  /\ outcome' = IF parsed.commandName = "status"
                                THEN [status |-> "returned", value |-> result,
                                      console |->
                                          [recommend |->
                                              StatusRecommends(estimateTokens(messages),
                                                               options)]]
                                ELSE Returned(result)
                  /\ delegateCalls' = 0
                  /\ pc' = pc
    /\ UNCHANGED <<sessions, metadata, currentSessionId, options>>

\* the summary arrives in the handler of /compact: the session is
\* overwritten, the node stores the result, routeCommand
HandleCommandResume(summary) ==
    /\ graph.invoke = "pending"
    /\ graph.node = "handleCommand"
    /\ pc = "summarizeAllMessages"
    /\ pc' = "idle"
    /\ IF SessionWritable(frame.sessionId)
       THEN LET result == [type |-> "executed"]
            IN /\ sessions' = replaceMessages(ForcedMessages(frame.messages, summary),
                                              frame.sessionId)
               /\ outcome' = Returned(result)
               /\ graph' = MoveTo([graph EXCEPT !.commandResult = result],
                                  routeCommand(result))
       ELSE /\ sessions' = sessions
            /\ outcome' = Threw("no session")
            /\ graph' = [graph EXCEPT !.invoke = "rejected"]
    /\ metadata' = IF SessionWritable(frame.sessionId) THEN touch(frame.sessionId) ELSE metadata
    /\ UNCHANGED <<currentSessionId, options, frame, delegateCalls>>

\* compact: compactMessages without force, up to its return or to the await
\* of the summary; the edge after the node leads to END
CompactNode ==
    /\ AtNode("compact")
    /\ LET messages == getMessages(graph.sessionId)
       IN /\ frame' = [NoFrame EXCEPT
                          !.op = "compactNode", !.sessionId = graph.sessionId,
                          !.messages = messages, !.before = sessions,
                          !.conversation =
                              IF ReachesSummarize(messages, FALSE, options)
                              THEN summarizeMessagesConversation(
                                       Partition(messages, options).middleMessages)
                              ELSE <<>>]
          /\ IF ReachesSummarize(messages, FALSE, options)
             THEN /\ pc' = "summarizeMessages"
                  /\ outcome' = Pending
                  /\ delegateCalls' = 1
                  /\ graph' = graph
             ELSE /\ pc' = "idle"
                  /\ outcome' = Returned(NoOpResult(messages, estimateTokens(messages)))
                  /\ delegateCalls' = 0
                  /\ graph' = MoveTo(graph, END)
    /\ UNCHANGED <<sessions, metadata, currentSessionId, options>>

\* the summary arrives in the compact node: the result is stored
CompactNodeResume(summary) ==
    /\ graph.invoke = "pending"
    /\ graph.node = "compact"
    /\ pc = "summarizeMessages"
    /\ pc' = "idle"
    /\ LET p == Partition(frame.messages, options)
           compactedMessages ==
               CompactedMessages(p.systemMessages, summary, p.recentMessages)
           result == CompactedResult(frame.messages, estimateTokens(frame.messages),
                                     compactedMessages)
       IN IF SessionWritable(frame.sessionId)
          THEN /\ sessions' = CompactNodeCommit(result, frame.sessionId)
               /\ outcome' = Returned(result)
               /\ graph' = MoveTo(graph, END)
          ELSE /\ sessions' = sessions
               /\ outcome' = Threw("no session")
               /\ graph' = [graph EXCEPT !.invoke = "rejected"]
    /\ metadata' = IF SessionWritable(frame.sessionId) THEN touch(frame.sessionId) ELSE metadata
    /\ UNCHANGED <<currentSessionId, options, frame, delegateCalls>>

\* the summarization request of a node rejects: nothing between the request
\* and app.invoke catches the error
NodeSummarizeFails ==
    /\ graph.invoke = "pending"
    /\ pc \in {"summarizeMessages", "summarizeAllMessages"}
    /\ pc' = "idle"
    /\ outcome' = Threw("model")
    /\ graph' = [graph EXCEPT !.invoke = "rejected"]
    /\ UNCHANGED <<sessions, metadata, currentSessionId, options, frame, delegateCalls>>

NextDialog ==
    \/ \E closed \in BOOLEAN, line \in UserLines : GetUserInputNode(closed, line)
    \/ ParseInputNode
    \/ AddUserMessageNode
    \/ AddMessageNode
    \/ \E response \in AgentReplies : AgentNode(response)
    \/ AgentNodeFails
    \/ ToolsNode
    \/ HandleCommandNode
    \/ \E summary \in DelegateReplies : HandleCommandResume(summary)
    \/ CompactNode
    \/ \E summary \in DelegateReplies : CompactNodeResume(summary)
    \/ NodeSummarizeFails

SpecDialog == InitDialog /\ [][NextDialog]_vars

\* the agent-tools cycle keeps running: the model answers the request of the
\* agent node (or the request fails) and the tools node returns
CycleProgress ==
    \/ \E response \in AgentReplies : AgentNode(response)
    \/ AgentNodeFails
    \/ ToolsNode

SpecDialogLive == SpecDialog /\ WF_vars(CycleProgress)

\* ---------------------------------------------------------------- tools
\* the tools the constructor of the tool manager registers
DefaultTools == {"read_file", "write_file", "list_dir", "execute"}

\* the executors of the tool manager of improve-01: the default tools and
\* read_image
Executors == DefaultTools \cup {"read_image"}

\* the tool names a tool call of the model carries: the registered ones and
\* one that no executor is registered for
ToolNameInputs == Executors \cup {"search_web"}

\* the arguments of a tool call, parsed from the JSON of the model
ToolArgsInputs == {[path |-> "notes.txt"], [path |-> "chart.png"]}

\* the ids of a tool call: none, the empty one, and two ids of the model
ToolCallIdInputs == {Null, "", "call_1", "call_2"}

\* toolCallId || ""
OrEmpty(toolCallId) == IF toolCallId = Null THEN "" ELSE toolCallId

\* new ToolMessage({tool_call_id: toolCallId || "", content})
ToolMessageOf(toolCallId, content) ==
    [role |-> "tool", content |-> content, tool_call_id |-> OrEmpty(toolCallId)]

\* `${error}` of an Error, a string being the sequence of the pieces that
\* are joined: its name, and its message when it has one
ErrorText(error) ==
    IF error.message = "" THEN <<error.name>>
    ELSE <<error.name, ": ", error.message>>

\* what the file system and the shell make the default executors return:
\* some text, or for a file or a directory that is empty the empty string
StringResults(toolName) ==
    IF toolName \in {"read_file", "list_dir"} THEN {<<>>, <<"text">>}
    ELSE {<<"text">>}

\* what the executor of a tool returns when it does not throw: the default
\* tools a string, read_image a tool message and the image
ExecutorResults(toolName, args, toolCallId) ==
    IF toolName = "read_image"
    THEN {[kind |-> "array",
           messages |-> <<ToolMessageOf(toolCallId, <<"read ", args.path>>),
                          HumanMessage(ArrayContent(<<ImagePart("auto")>>))>>]}
    ELSE {[kind |-> "string", text |-> t] : t \in StringResults(toolName)}

\* what the executors throw: the errors of the file system and of the shell
ExecutorErrors ==
    {[name |-> "Error", message |-> "ENOENT"],
     [name |-> "Error", message |-> ""]}

MessagesValue(messages) == [type |-> "messages", messages |-> messages]

\* executeTool when no executor is registered for the name
executeToolUnknown(toolName, toolCallId) ==
    Returned(MessagesValue(<<ToolMessageOf(toolCallId, <<"Unknown tool: ", toolName>>)>>))

\* executeTool after its executor has returned
executeToolResult(result, toolCallId) ==
    IF result.kind = "string"
    THEN Returned(MessagesValue(<<ToolMessageOf(toolCallId, result.text)>>))
    ELSE IF result.kind = "array"
    THEN Returned(MessagesValue(result.messages))
    ELSE Returned(MessagesValue(<<result.message>>))

\* mutant: the error of the executor leaves executeTool
executeToolCatch_rethrow(error, toolCallId) == Threw(ErrorText(error))

\* executeTool after its executor has thrown (the prefix of the text is the
\* Korean word for error in the source)
executeToolCatch(error, toolCallId) ==
    Returned(MessagesValue(<<ToolMessageOf(toolCallId, <<"error: ">> \o ErrorText(error))>>))

NoEffect == [kind |-> "none"]

ToolFrame(toolName, args, toolCallId) ==
    [op |-> "executeTool", toolName |-> toolName, args |-> args,
     toolCallId |-> toolCallId, effect |-> NoEffect]

\* executeTool up to the await of the executor
ExecuteToolCall(toolName, args, toolCallId) ==
    /\ pc = "idle"
    /\ frame' = ToolFrame(toolName, args, toolCallId)
    /\ IF toolName \notin Executors
       THEN /\ outcome' = executeToolUnknown(toolName, toolCallId)
            /\ pc' = "idle"
       ELSE /\ outcome' = Pending
            /\ pc' = "executor"
    /\ UNCHANGED <<sessions, metadata, currentSessionId, options, delegateCalls, graph>>

\* the executor returns
ExecutorReturns(result) ==
    /\ pc = "executor"
    /\ result \in ExecutorResults(frame.toolName, frame.args, frame.toolCallId)
    /\ frame' = [frame EXCEPT !.effect = result]
    /\ outcome' = executeToolResult(result, frame.toolCallId)
    /\ pc' = "idle"
    /\ UNCHANGED <<sessions, metadata, currentSessionId, options, delegateCalls, graph>>

\* the executor throws
ExecutorThrows(error) ==
    /\ pc = "executor"
    /\ frame' = [frame EXCEPT !.effect = [kind |-> "threw", error |-> error]]
    /\ outcome' = executeToolCatch(error, frame.toolCallId)
    /\ pc' = "idle"
    /\ UNCHANGED <<sessions, metadata, currentSessionId, options, delegateCalls, graph>>

InitTools ==
    /\ sessions = <<>>
    /\ metadata = <<>>
    /\ currentSessionId = Null
    /\ \E supplied \in ConstructorInputs : options = ContextCompactor(supplied)
    /\ pc = "idle"
    /\ frame = NoFrame
    /\ outcome = Returned(Void)
    /\ delegateCalls = 0
    /\ graph = NoGraph

NextTools ==
    \/ \E toolName \in ToolNameInputs, args \in ToolArgsInputs,
          toolCallId \in ToolCallIdInputs :
           ExecuteToolCall(toolName, args, toolCallId)
    \/ /\ pc = "executor"
       /\ \E result \in ExecutorResults(frame.toolName, frame.args, frame.toolCallId) :
              ExecutorReturns(result)
    \/ \E error \in ExecutorErrors : ExecutorThrows(error)

SpecTools == InitTools /\ [][NextTools]_vars

\* ---------------------------------------------------------------- command text
MaxInput == 5

\* the characters of the lines of this model: the slash, a word character,
\* the space and the line feed, and a character that is none of these
WordChars == {"a"}

Whitespace == {" ", "\n"}

InputChars == {"/", "-"} \cup WordChars \cup Whitespace

RECURSIVE InputsOfLength(_)
InputsOfLength(n) ==
    IF n = 0 THEN {<<>>}
    ELSE {Append(text, c) : text \in InputsOfLength(n - 1), c \in InputChars}

CommandTextInputs == UNION {InputsOfLength(n) : n \in 0..MaxInput}

RECURSIVE trimStart(_)
trimStart(text) ==
    IF text # <<>> /\ Head(text) \in Whitespace THEN trimStart(Tail(text)) ELSE text

RECURSIVE trimEnd(_)
trimEnd(text) ==
    IF text # <<>> /\ text[Len(text)] \in Whitespace
    THEN trimEnd(SubSeq(text, 1, Len(text) - 1))
    ELSE text

\* String.prototype.trim
trim(text) == trimEnd(trimStart(text))

\* the number of characters of the set that follow one another from `from`
RECURSIVE Run(_, _, _)
Run(text, from, chars) ==
    IF from <= Len(text) /\ text[from] \in chars THEN 1 + Run(text, from + 1, chars)
    ELSE 0

NoMatch == [matched |-> FALSE, commandName |-> <<>>, hasArgs |-> FALSE, args |-> <<>>]

\* text.match(/^\/(\w+)(?:\s+(.+))?$/): the slash, the longest run of word
\* characters, and then either the end or white space (as much of it as
\* leaves a non-empty rest without a line feed) and the rest
CommandMatch(text) ==
    IF Len(text) < 2 \/ text[1] # "/" THEN NoMatch
    ELSE LET k == Run(text, 2, WordChars)
         IN IF k = 0 THEN NoMatch
            ELSE IF k + 1 = Len(text)
            THEN [matched |-> TRUE, commandName |-> SubSeq(text, 2, k + 1),
                  hasArgs |-> FALSE, args |-> <<>>]
            ELSE LET j == Run(text, k + 2, Whitespace)
                     fits == {i \in 1..j :
                                 /\ k + 1 + i < Len(text)
                                 /\ \A q \in (k + 2 + i)..Len(text) : text[q] # "\n"}
                 IN IF fits = {} THEN NoMatch
                    ELSE LET i == CHOOSE x \in fits : \A y \in fits : y <= x
                         IN [matched |-> TRUE,
                             commandName |-> SubSeq(text, 2, k + 1),
                             hasArgs |-> TRUE,
                             args |-> SubSeq(text, k + 2 + i, Len(text))]

\* mutant: isCommand looks at the input as it is
isCommandText_untrimmed(input) ==
    IF input = <<>> \/ Head(input) # "/" THEN FALSE
    ELSE CommandMatch(input).matched

\* CommandRegistry.isCommand on the characters of the input
isCommandText(input) ==
    LET trimmed == trim(input)
    IN IF trimmed = <<>> \/ Head(trimmed) # "/" THEN FALSE
       ELSE CommandMatch(trimmed).matched

NullParse == [isNull |-> TRUE, commandName |-> <<>>, args |-> <<>>]

\* CommandRegistry.parseCommand
parseCommand(input) ==
    LET trimmed == trim(input)
    IN IF ~isCommandText(trimmed) THEN NullParse
       ELSE LET match == CommandMatch(trimmed)
            IN IF ~match.matched THEN NullParse
               ELSE [isNull |-> FALSE, commandName |-> match.commandName,
                     args |-> IF match.hasArgs THEN match.args ELSE <<>>]

\* the command names execute is called with: the registered ones whose
\* handlers return at once, and one that is not registered
ExecuteNameInputs == (LambdaCommands \ {"compact"}) \cup TemplateCommands \cup {"nope"}

\* the registry is used once before the first node of the dialog runs
RegistryIdle ==
    /\ pc = "idle"
    /\ frame = NoFrame

IsCommandCall(input) ==
    /\ RegistryIdle
    /\ frame' = [op |-> "isCommand", input |-> input]
    /\ outcome' = Returned([type |-> "boolean", value |-> isCommandText(input)])
    /\ UNCHANGED <<sessions, metadata, currentSessionId, options, pc, delegateCalls, graph>>

ParseCommandCall(input) ==
    /\ RegistryIdle
    /\ frame' = [op |-> "parseCommand", input |-> input]
    /\ outcome' = Returned(parseCommand(input))
    /\ UNCHANGED <<sessions, metadata, currentSessionId, options, pc, delegateCalls, graph>>

ExecuteCall(commandName, args) ==
    /\ RegistryIdle
    /\ frame' = [op |-> "execute", commandName |-> commandName, args |-> args]
    /\ outcome' = Returned(execute(commandName, args))
    /\ UNCHANGED <<sessions, metadata, currentSessionId, options, pc, delegateCalls, graph>>

NextCommands ==
    \/ NextDialog
    \/ /\ RegistryIdle
       /\ \E input \in CommandTextInputs : IsCommandCall(input)
    \/ /\ RegistryIdle
       /\ \E input \in CommandTextInputs : ParseCommandCall(input)
    \/ \E commandName \in ExecuteNameInputs : ExecuteCall(commandName, "")

SpecCommands == InitDialog /\ [][NextCommands]_vars

\* ---------------------------------------------------------------- configuration
\* the values a caller supplies for the options, the valid and the invalid
\* ones, each field being optional
ConfigValues ==
    [contextWindowSize : {-1, 0, 36},
     threshold : {Threshold(0, 1), Threshold(1, 2), Threshold(1, 1), Threshold(3, 2)},
     preserveRecentCount : 0..MaxPreserve]

ConfigInputs ==
    {[f \in given |-> values[f]] : given \in SUBSET OptionFields, values \in ConfigValues}

\* new ContextCompactor(supplied)
InitConfig ==
    /\ sessions = [id \in {"s1"} |-> <<>>]
    /\ metadata = [id \in {"s1"} |-> CreatedMetadata]
    /\ currentSessionId = "s1"
    /\ \E supplied \in ConfigInputs :
          /\ options = ContextCompactor(supplied)
          /\ frame = [NoFrame EXCEPT !.op = "constructor", !.supplied = supplied]
    /\ pc = "idle"
    /\ outcome = Returned(Void)
    /\ delegateCalls = 0
    /\ graph = NoGraph

NextConfig ==
    \/ \E supplied \in ConfigInputs : UpdateOptions(supplied)
    \/ \E sid \in DOMAIN sessions : ShouldCompactCall(sid)

SpecConfig == InitConfig /\ [][NextConfig]_vars

\* ---------------------------------------------------------------- properties
\* the partition as the design states it: the maximal prefix of system
\* messages, then the middle, then the last preserveRecentCount messages of
\* what follows the prefix
LeadingSystem(h) == SubSeq(h, 1, LeadingSystemCount(h))

AfterLeadingSystem(h) == SubSeq(h, LeadingSystemCount(h) + 1, Len(h))

RetainedTail(h, n) ==
    LET rest == AfterLeadingSystem(h)
    IN IF Len(rest) > n THEN SubSeq(rest, Len(rest) - n + 1, Len(rest)) ELSE rest

IsDigest(m, role) ==
    m.role = role /\ m.content.type = "string" /\ m.content.digest

\* a call of compactMessages (direct or from the compact node) has returned
CompactMessagesReturned ==
    /\ frame.op \in {"compactMessages", "compactNode"}
    /\ pc = "idle"
    /\ outcome.status = "returned"

\* the occupancy of h is below the threshold
BelowTrigger(h) ==
    estimateTokens(h) * options.threshold.den
        < options.threshold.num * options.contextWindowSize

IsNoOp(h) ==
    /\ CompactMessagesReturned
    /\ outcome.value.compacted = FALSE
    /\ outcome.value.messages = h
    /\ outcome.value.originalCount = Len(h)
    /\ outcome.value.compactedCount = outcome.value.originalCount
    /\ outcome.value.compactedTokens = outcome.value.originalTokens
    /\ delegateCalls = 0

\* C1: whenever compactMessages returns compacted=true, the result is the
\* leading system prefix of the history, one system-role summary message and
\* the retained tail of the history, each message of prefix and tail once.
C1_Preservation ==
    (CompactMessagesReturned /\ outcome.value.compacted) =>
        LET h == frame.messages
            r == outcome.value.messages
            ls == LeadingSystem(h)
            tl == RetainedTail(h, options.preserveRecentCount)
        IN /\ Len(r) = Len(ls) + 1 + Len(tl)
           /\ SubSeq(r, 1, Len(ls)) = ls
           /\ IsDigest(r[Len(ls) + 1], "system")
           /\ SubSeq(r, Len(ls) + 2, Len(r)) = tl

\* C2: the three segments compactMessages computes concatenate to the
\* history, and the first one is the maximal prefix of system messages.
C2_PartitionTotality ==
    (/\ frame.op \in {"compactMessages", "compactNode"}
     /\ ~BelowThresholdReturn(frame.messages, frame.force, options)) =>
        LET p == Partition(frame.messages, options)
        IN /\ p.systemMessages \o p.middleMessages \o p.recentMessages = frame.messages
           /\ p.systemMessages = LeadingSystem(frame.messages)

\* C3: below the trigger and without force, compactMessages returns the
\* no-op outcome with the same history and never calls the delegate.
C3_NoOpBelowTrigger ==
    (/\ frame.op \in {"compactMessages", "compactNode"}
     /\ ~frame.force
     /\ BelowTrigger(frame.messages)) => IsNoOp(frame.messages)

C3_Witness ==
    /\ frame.op = "compactMessages"
    /\ ~frame.force
    /\ BelowTrigger(frame.messages)
    /\ Len(frame.messages) = 3
    /\ options.preserveRecentCount = 1
    /\ CompactMessagesReturned

\* C4: while the summary is awaited, and after the summarization failed, the
\* stored history of the session is the history before the call (compact
\* node and compact command).
C4_FailureAtomicity ==
    (/\ frame.op \in {"compactNode", "handlerCompact"}
     /\ (pc # "idle" \/ outcome = Threw("model"))) =>
        /\ getMessages(frame.sessionId) = frame.messages
        /\ sessions = frame.before

C4_Witness ==
    /\ frame.op = "handlerCompact"
    /\ pc = "idle"
    /\ outcome = Threw("model")
    /\ Len(frame.messages) = 3
    /\ sessions = frame.before

\* C5: whenever compactMessages returns compacted=true, the result has at
\* most as many messages as the history.
C5_CountReduction ==
    (CompactMessagesReturned /\ outcome.value.compacted) =>
        outcome.value.compactedCount <= outcome.value.originalCount

\* C6: whenever compactMessages returns compacted=true (its middle region is
\* then not empty), the estimate of the result is below the estimate of the
\* history, whatever the summary.
C6_TokenReduction ==
    (CompactMessagesReturned /\ outcome.value.compacted) =>
        outcome.value.compactedTokens < outcome.value.originalTokens

\* C7: a history with at most preserveRecentCount messages after its leading
\* system prefix gives the no-op outcome, forced or not.
C7_TailSizeNoOp ==
    (/\ frame.op \in {"compactMessages", "compactNode"}
     /\ Len(frame.messages) - Len(LeadingSystem(frame.messages))
            <= options.preserveRecentCount) => IsNoOp(frame.messages)

\* C8: shouldCompact is true exactly when the estimate divided by the context
\* window is at least the threshold; at equality it is true.
C8_InclusiveThreshold ==
    frame.op = "shouldCompact" =>
        (outcome.value.value <=>
            (CallOverhead + SumMessageTokens(frame.messages)) * options.threshold.den
                >= options.threshold.num * options.contextWindowSize)

C8_Witness ==
    /\ frame.op = "shouldCompact"
    /\ estimateTokens(frame.messages) * options.threshold.den
           = options.threshold.num * options.contextWindowSize
    /\ outcome.value.value = TRUE

\* the compact command has run to its end on an existing session
HandlerCompactDone ==
    /\ frame.op = "handlerCompact"
    /\ pc = "idle"
    /\ outcome # Threw("model")
    /\ frame.sessionId # Null
    /\ frame.sessionId \in DOMAIN sessions

\* C9: when the delegate succeeds the compact command returns "executed" and
\* has replaced the history of the session, whatever the occupancy.
C9_ForcedAlwaysExecutes ==
    HandlerCompactDone =>
        /\ outcome = Returned([type |-> "executed"])
        /\ delegateCalls = 1
        /\ LET h == sessions[frame.sessionId]
           IN Len(h) >= 1 /\ IsDigest(h[Len(h)], "ai")

C9_Witness ==
    /\ HandlerCompactDone
    /\ BelowTrigger(frame.messages)
    /\ Len(frame.messages) = 2
    /\ sessions[frame.sessionId] # frame.messages

CountOf(h, Test(_)) == Cardinality({i \in DOMAIN h : Test(h[i])})

\* C10: after a successful compact command the history is every system
\* message, then every context-injection message, then one assistant summary:
\* #system + #context + 1 messages.
C10_ForcedShape ==
    HandlerCompactDone =>
        LET old == frame.messages
            new == sessions[frame.sessionId]
            nSys == CountOf(old, IsSystemMessage)
            nCtx == CountOf(old, IsContextMessage)
        IN /\ Len(new) = nSys + nCtx + 1
           /\ IsDigest(new[Len(new)], "ai")
           /\ \A i \in 1..nSys : IsSystemMessage(new[i])
           /\ \A i \in (nSys + 1)..(nSys + nCtx) : IsContextMessage(new[i])
           /\ SubSeq(new, 1, nSys) = SelectSeq(old, IsSystemMessage)
           /\ SubSeq(new, nSys + 1, nSys + nCtx) = SelectSeq(old, IsContextMessage)

C10_Witness ==
    /\ HandlerCompactDone
    /\ CountOf(frame.messages, IsSystemMessage) = 1
    /\ CountOf(frame.messages, IsContextMessage) = 1
    /\ Len(frame.messages) = 3
    /\ Len(sessions[frame.sessionId]) = 3

\* a call of estimateTokens has returned
EstimateTokensReturned ==
    /\ frame.op = "estimateTokens"
    /\ outcome.status = "returned"

\* C13 (as stated): the estimate of an empty sequence of messages is 0.
C13_EmptyEstimateZero ==
    (EstimateTokensReturned /\ frame.messages = <<>>) => outcome.value.value = 0

\* C13 (amended): the estimate of an empty sequence of messages is the
\* overhead of the call, 3; it is a result, not an error.
C13_EmptyEstimateIsCallOverhead ==
    (frame.op = "estimateTokens" /\ frame.messages = <<>>) =>
        /\ outcome.status = "returned"
        /\ outcome.value.value = 3

C13_Witness ==
    /\ EstimateTokensReturned
    /\ frame.messages = <<>>
    /\ frame.sessionId = "s1"
    /\ sessions["s1"] = <<>>

RECURSIVE SumSeq(_)
SumSeq(numbers) ==
    IF numbers = <<>> THEN 0 ELSE Head(numbers) + SumSeq(Tail(numbers))

IsLowImage(item) == item.type = "image_url" /\ item.detail = "low"

IsOtherImage(item) == item.type = "image_url" /\ item.detail # "low"

TextTokens(item) == IF item.type = "text" THEN item.tokens ELSE 0

\* the cost of the payload of a message: the tokens of a string; for an
\* array 85 per low-detail image, 400 per other image, the tokens of the texts
PayloadCost(content) ==
    IF content.type = "string" THEN content.tokens
    ELSE 85 * CountOf(content.items, IsLowImage)
         + 400 * CountOf(content.items, IsOtherImage)
         + SumSeq([i \in 1..Len(content.items) |-> TextTokens(content.items[i])])

C17_StatusReadOnly ==
    frame.op = "handlerStatus" =>
        /\ sessions = frame.before
        /\ options = frame.previous
        /\ outcome.status = "returned"
        /\ outcome.value = [type |-> "executed"]
        /\ outcome.console.recommend <=> shouldCompact(frame.messages, options)

\* C18: whenever compactMessages returns compacted=true, compactedCount is
\* the length of the leading system prefix plus one plus preserveRecentCount.
C18_CompactedCount ==
    (CompactMessagesReturned /\ outcome.value.compacted) =>
        outcome.value.compactedCount
            = Len(LeadingSystem(frame.messages)) + 1 + options.preserveRecentCount

C18_Witness ==
    /\ CompactMessagesReturned
    /\ outcome.value.compacted
    /\ Len(LeadingSystem(frame.messages)) = 1
    /\ options.preserveRecentCount = 1
    /\ outcome.value.compactedCount = 3
    /\ Len(outcome.value.messages) = 3

CompactionOps == {"compactMessages", "compactNode", "handlerCompact"}

\* C19: a call of compactMessages or of the compact command issues at most
\* one summarization call and has no outcome while it awaits it;
\* compactMessages has issued one call when it returns compacted=true and
\* none when it returns compacted=false.
C19_SingleDelegateCall ==
    /\ delegateCalls <= 1
    /\ (frame.op \in CompactionOps /\ pc # "idle") =>
           (delegateCalls = 1 /\ outcome = Pending)
    /\ (frame.op \in CompactionOps /\ pc = "idle") => outcome # Pending
    /\ CompactMessagesReturned =>
           delegateCalls = (IF outcome.value.compacted THEN 1 ELSE 0)

C19_Witness ==
    /\ CompactMessagesReturned
    /\ frame.op = "compactNode"
    /\ outcome.value.compacted
    /\ delegateCalls = 1
    /\ sessions[frame.sessionId] = outcome.value.messages

NotPreserved(m) == ~IsSystemMessage(m) /\ ~IsContextMessage(m)

UserAssistantTool(m) ==
    CASE m.role = "human" -> "User"
      [] m.role = "ai" -> "Assistant"
      [] m.role = "tool" -> "Tool"
      [] OTHER -> "none"

\* the lines of the conversation text for the messages of h
Labelled(h) ==
    [i \in 1..Len(h) |-> [role |-> UserAssistantTool(h[i]), content |-> h[i].content]]

\* C20 (as stated): the conversation text the compact command hands to the
\* language model is the messages it does not preserve, in order, labelled
\* User, Assistant or Tool: no system message, no context-injection message.
C20_TranscriptNonPreserved ==
    frame.op = "handlerCompact" =>
        frame.conversation = Labelled(SelectSeq(frame.messages, NotPreserved))

\* C20 (amended): the conversation text the compact command hands to the
\* language model is the messages that are not system messages, in order,
\* labelled User, Assistant or Tool; the context-injection messages, which
\* the command preserves, are part of it.
C20_TranscriptNonSystem ==
    frame.op = "handlerCompact" =>
        /\ frame.conversation = Labelled(SelectSeq(frame.messages, NotSystemMessage))
        /\ \A i \in DOMAIN frame.conversation :
              frame.conversation[i].role \in {"User", "Assistant", "Tool"}
        /\ Len(frame.conversation)
              = Len(frame.messages) - CountOf(frame.messages, IsSystemMessage)

C20_Witness ==
    /\ frame.op = "handlerCompact"
    /\ pc = "summarizeAllMessages"
    /\ Len(frame.messages) = 3
    /\ CountOf(frame.messages, IsSystemMessage) = 1
    /\ CountOf(frame.messages, IsContextMessage) = 1
    /\ Len(frame.conversation) = 2

\* C11: when the summarization fails inside the compact command, the failure
\* does not leave the command layer: the handleCommand node stores an error
\* result carrying the message of the failure and the dialog asks for input
\* again; the command ends as "executed" or as an error result.
C11_ForcedFailureSurfaces ==
    (graph.invoke # "none" /\ frame.op = "handlerCompact" /\ pc = "idle") =>
        /\ graph.invoke = "pending"
        /\ graph.commandResult.type \in {"executed", "error"}
        /\ outcome = Threw("model") =>
               /\ graph.commandResult = ErrorResult("model")
               /\ graph.node = "getUserInput"

\* C12: when the summarization fails in the compact node, the dialog
\* workflow does not abort with the failure and the session keeps the
\* history it had.
C12_AutomaticFailureContained ==
    (graph.invoke # "none" /\ frame.op = "compactNode" /\ outcome = Threw("model")) =>
        /\ graph.invoke # "rejected"
        /\ getMessages(graph.sessionId) = frame.messages

DefaultOptions ==
    [contextWindowSize |-> 128000, threshold |-> Threshold(7, 10),
     preserveRecentCount |-> 4]

\* a window above 0, a threshold in (0, 1], a count of 0 or more
ValidConfig(c) ==
    /\ "contextWindowSize" \in DOMAIN c => c["contextWindowSize"] > 0
    /\ "threshold" \in DOMAIN c =>
           /\ c["threshold"].num > 0
           /\ c["threshold"].num <= c["threshold"].den
    /\ "preserveRecentCount" \in DOMAIN c => c["preserveRecentCount"] >= 0

\* C15: after a construction or an update with valid values, each supplied
\* field is the value in effect (a count of 0 included); an omitted field is
\* its default (128000, 0.7, 4) after a construction and is unchanged by an
\* update.
C15_ConfigSurface ==
    (frame.op \in {"constructor", "updateOptions"} /\ ValidConfig(frame.supplied)) =>
        \A f \in OptionFields :
            options[f] = IF f \in DOMAIN frame.supplied THEN frame.supplied[f]
                         ELSE IF frame.op = "constructor" THEN DefaultOptions[f]
                         ELSE frame.previous[f]

\* C16: a construction with a window of 0 or less, or with a threshold
\* outside (0, 1], fails, and the options in effect always have a positive
\* window and a threshold in (0, 1].
C16_ConfigValidated ==
    /\ (frame.op = "constructor" /\ ~ValidConfig(frame.supplied)) =>
           outcome.status = "threw"
    /\ options.contextWindowSize > 0
    /\ options.threshold.num > 0
    /\ options.threshold.num <= options.threshold.den

\* a command handler has been called; its session is the one the context
\* names, or the current one
HandlerOps == {"handlerCompact", "handlerStatus"}

HandlerTarget == IF frame.context # Null THEN frame.context ELSE currentSessionId

\* C21: the compact and status handlers read the history of the session named
\* by context.sessionId, or of the current session when the context names
\* none, and the history of every other session is what it was before the
\* call
C21_SessionResolution ==
    frame.op \in HandlerOps =>
        /\ frame.messages = IF HandlerTarget \in DOMAIN frame.before
                            THEN frame.before[HandlerTarget] ELSE <<>>
        /\ DOMAIN sessions = DOMAIN frame.before
        /\ \A id \in DOMAIN sessions \ {HandlerTarget} : sessions[id] = frame.before[id]

\* the compact handler has rewritten a session that the context names and
\* that is not the current one
C21_Witness ==
    /\ frame.op = "handlerCompact"
    /\ pc = "idle"
    /\ outcome = Returned([type |-> "executed"])
    /\ frame.context = "s2"
    /\ currentSessionId = "s1"
    /\ DOMAIN sessions = {"s1", "s2"}
    /\ frame.before["s1"] # frame.before["s2"]
    /\ sessions["s2"] # frame.before["s2"]

DialogRuns == graph.invoke = "pending"

\* the exits of the dialog named in the documentation: a close result of a
\* command, the shouldClose flag, the bound on the iterations
DocumentedExit(before, after) ==
    \/ before.node = "handleCommand" /\ after.commandResult.type = "close"
    \/ after.shouldClose
    \/ after.iterations >= maxIterations

\* C22: the dialog reaches END only by a close result, the shouldClose flag or
\* iterations >= maxIterations; in particular the step that ends an automatic
\* compaction does not lead to END otherwise
C22_DocumentedExits ==
    [][(graph.node # END /\ graph'.node = END) => DocumentedExit(graph, graph')]_vars

\* the agent node has run (the model answered): the graph left the node
AgentRan == graph.node = "agent" /\ graph'.node # "agent"

\* the user entered a line that is not empty
InputAccepted ==
    /\ graph.node = "getUserInput"
    /\ graph'.node = "parseInput"
    /\ frame'.supplied # <<>>
    /\ frame'.supplied[1].kind # "empty"

TurnOver == ~DialogRuns \/ graph.node \in {"getUserInput", "compact", END}

\* C23: iterations grows by one with every run of the agent node, is 0 after
\* every accepted input, the agent and tools nodes are entered only with
\* iterations < maxIterations (so the agent runs at most maxIterations times
\* in a turn), and every run of the agent-tools cycle comes to an end
C23_BoundedToolLoop ==
    /\ [](graph.iterations <= maxIterations)
    /\ []((DialogRuns /\ graph.node \in {"agent", "tools"}) =>
              graph.iterations < maxIterations)
    /\ [][AgentRan => graph'.iterations = graph.iterations + 1]_vars
    /\ [][InputAccepted => graph'.iterations = 0]_vars
    /\ ((DialogRuns /\ graph.node \in {"agent", "tools"}) ~> TurnOver)

\* the agent-tools cycle has used all its iterations and the dialog ended
C23_Witness ==
    /\ graph.node = END
    /\ graph.iterations = maxIterations
    /\ ~graph.shouldClose
    /\ frame.op = "agent"
    /\ Len(ToolCalls(sessions[graph.sessionId][Len(sessions[graph.sessionId])])) > 0

DialogMessages == sessions[graph.sessionId]

LastMessage(messages) == messages[Len(messages)]

\* C25: when the handleCommand node is left, a close result leads to END, an
\* error or executed result leads to getUserInput with the session as the
\* command left it, and a prompt result leads to addMessage, which appends one
\* user message holding the prompt and hands over to the agent
C25_CommandRouting ==
    [][/\ (graph.node = "handleCommand" /\ graph'.node # "handleCommand") =>
            /\ graph'.commandResult.type \in {"close", "error", "executed", "prompt"}
            /\ graph'.commandResult.type = "close" => graph'.node = END
            /\ graph'.commandResult.type \in {"error", "executed"} =>
                   /\ graph'.node = "getUserInput"
                   /\ sessions' = sessions \/ frame.op = "handlerCompact"
            /\ graph'.commandResult.type = "prompt" =>
                   /\ graph'.node = "addMessage"
                   /\ sessions' = sessions
       /\ (graph.node = "addMessage" /\ graph'.node # "addMessage") =>
            /\ graph'.node = "agent"
            /\ sessions' = [sessions EXCEPT ![graph.sessionId] =
                                Append(@, HumanMessage(graph.commandResult.message))]
      ]_vars

\* the prompt of a template command has joined the session and the agent is
\* next
C25_Witness ==
    /\ DialogRuns
    /\ graph.node = "agent"
    /\ frame.op = "addMessage"
    /\ graph.commandResult.type = "prompt"
    /\ LastMessage(DialogMessages) = HumanMessage(graph.commandResult.message)

\* C26: once getUserInput has set shouldClose, no node adds a message to the
\* session, and neither a command nor the agent is run
C26_CleanClose ==
    [][(DialogRuns /\ graph.shouldClose) =>
           /\ sessions' = sessions
           /\ graph'.node \notin {"handleCommand", "agent", "tools", "compact"}]_vars

\* the agent node has returned and shouldContinue has routed
AfterAgent == frame.op = "agent" /\ outcome.status = "returned"

\* C28: after the agent node the workflow goes to END when shouldClose, else
\* to END when iterations >= maxIterations, else to tools when the last
\* message has tool calls, else to compact when shouldCompact, else to
\* getUserInput; the compact node runs only on a history that is due and
\* whose last message has no tool calls
C28_RoutingPriority ==
    /\ AfterAgent =>
           LET closing == graph.shouldClose
               spent == graph.iterations >= maxIterations
               calls == Len(ToolCalls(LastMessage(DialogMessages))) > 0
               due == shouldCompact(DialogMessages, options)
           IN /\ closing => graph.node = END
              /\ (~closing /\ spent) => graph.node = END
              /\ (~closing /\ ~spent /\ calls) => graph.node = "tools"
              /\ (~closing /\ ~spent /\ ~calls /\ due) => graph.node = "compact"
              /\ (~closing /\ ~spent /\ ~calls /\ ~due) => graph.node = "getUserInput"
    /\ (DialogRuns /\ graph.node = "compact") =>
           /\ Len(ToolCalls(LastMessage(DialogMessages))) = 0
           /\ shouldCompact(DialogMessages, options)

\* a history that is due is handed to the tools node first, because its last
\* message has tool calls
C28_Witness ==
    /\ AfterAgent
    /\ graph.node = "tools"
    /\ shouldCompact(DialogMessages, options)

\* the message at index i answers a tool call of an earlier assistant message
CallPrecedes(h, i) ==
    \E j \in 1..(i - 1) :
        /\ h[j].role = "ai"
        /\ \E k \in 1..Len(ToolCalls(h[j])) : ToolCalls(h[j])[k].id = h[i].tool_call_id

\* C29: in the history the compact node stores, every tool message comes
\* after the assistant message whose tool call it answers
C29_ToolCallPairing ==
    (/\ frame.op = "compactNode"
     /\ pc = "idle"
     /\ outcome.status = "returned"
     /\ outcome.value.compacted) =>
        LET h == sessions[frame.sessionId]
        IN \A i \in 1..Len(h) : h[i].role = "tool" => CallPrecedes(h, i)

\* the compact node has run to its end
CompactNodeDone ==
    /\ frame.op = "compactNode"
    /\ pc = "idle"
    /\ outcome.status = "returned"

\* C27: after the compact node the history of its session is the messages of
\* the result when the result says compacted, and every history is what it
\* was before the node otherwise
C27_CommitRule ==
    CompactNodeDone =>
        IF outcome.value.compacted
        THEN sessions = [frame.before EXCEPT ![frame.sessionId] = outcome.value.messages]
        ELSE sessions = frame.before

\* the compact node has stored a compacted history
C27_Witness ==
    /\ CompactNodeDone
    /\ outcome.value.compacted
    /\ sessions[frame.sessionId] = outcome.value.messages
    /\ sessions # frame.before

\* a summary that an automatic compaction has inserted
IsAutomaticSummary(m) == IsDigest(m, "system")

\* C30: after an automatic compaction every earlier summary is where it was,
\* inside the leading system messages, the leading system messages are at
\* least one more than before, and no earlier summary was part of the text
\* that was summarized
C30_SummariesKept ==
    (CompactNodeDone /\ outcome.value.compacted) =>
        LET old == frame.messages
            new == sessions[frame.sessionId]
        IN /\ \A i \in 1..Len(old) :
                  IsAutomaticSummary(old[i]) =>
                      /\ i <= Len(LeadingSystem(new))
                      /\ new[i] = old[i]
           /\ Len(LeadingSystem(new)) >= Len(LeadingSystem(old)) + 1
           /\ \A k \in 1..Len(frame.conversation) :
                  ~(/\ frame.conversation[k].role = "System"
                    /\ frame.conversation[k].content.type = "string"
                    /\ frame.conversation[k].content.digest)

\* a call of executeTool has come to its end
ExecuteToolDone ==
    /\ frame.op = "executeTool"
    /\ pc = "idle"

\* the one tool message of a result, carrying the id of the call
OneToolMessage(messages) ==
    /\ Len(messages) = 1
    /\ messages[1].role = "tool"
    /\ messages[1].tool_call_id = OrEmpty(frame.toolCallId)

EndsWith(text, suffix) ==
    /\ Len(suffix) <= Len(text)
    /\ SubSeq(text, Len(text) - Len(suffix) + 1, Len(text)) = suffix

\* C24: executeTool always returns a list of messages and never throws; for
\* an unknown tool and for an executor that threw the list is one tool
\* message with the id of the call and the text of the error, and for a
\* string result it is one tool message with the id of the call
C24_ExecuteToolNeverThrows ==
    ExecuteToolDone =>
        /\ outcome.status = "returned"
        /\ outcome.value.type = "messages"
        /\ frame.toolName \notin Executors =>
               /\ OneToolMessage(outcome.value.messages)
               /\ outcome.value.messages[1].content = <<"Unknown tool: ", frame.toolName>>
        /\ frame.effect.kind = "threw" =>
               /\ OneToolMessage(outcome.value.messages)
               /\ EndsWith(outcome.value.messages[1].content,
                           ErrorText(frame.effect.error))
        /\ frame.effect.kind = "string" =>
               /\ OneToolMessage(outcome.value.messages)
               /\ outcome.value.messages[1].content = frame.effect.text

\* an executor has thrown and executeTool has returned one tool message with
\* the id of the call
C24_Witness ==
    /\ ExecuteToolDone
    /\ frame.effect.kind = "threw"
    /\ frame.toolCallId = "call_1"
    /\ outcome.status = "returned"
    /\ Len(outcome.value.messages) = 1
    /\ outcome.value.messages[1].tool_call_id = "call_1"

\* the compact command has run twice in succession and both runs have
\* rewritten the session
SecondRunDone ==
    /\ CompactCommandDone
    /\ DOMAIN frame.previous = {"messages", "result"}

\* C31: after the second of two successive runs of the compact command the
\* history has as many messages as after the first, the system and context
\* messages of the history before the first run plus one, the messages before
\* the last are those the first run left, in their order, and the last is
\* an assistant summary
C31_RepeatStable ==
    SecondRunDone =>
        LET first == frame.previous.result
            second == sessions[frame.sessionId]
            original == frame.previous.messages
        IN /\ Len(second) = Len(first)
           /\ Len(second) = Len(SelectSeq(original, IsSystemMessage))
                              + Len(SelectSeq(original, IsContextMessage)) + 1
           /\ SubSeq(second, 1, Len(second) - 1) = SubSeq(first, 1, Len(first) - 1)
           /\ SubSeq(second, 1, Len(second) - 1)
                  = SelectSeq(original, IsSystemMessage)
                    \o SelectSeq(original, IsContextMessage)
           /\ IsDigest(second[Len(second)], "ai")
           /\ IsDigest(first[Len(first)], "ai")

\* the second run has replaced a summary that mentions cocoagent.md by
\* another one, under a system message and a context message
C31_Witness ==
    /\ SecondRunDone
    /\ Len(sessions[frame.sessionId]) = 3
    /\ frame.previous.result[3].content.cocoagent
    /\ sessions[frame.sessionId][3] # frame.previous.result[3]
    /\ Len(frame.previous.messages) = 3

Registered == LambdaCommands \cup TemplateCommands

\* the command result names a command that is not registered
UnknownParsed(commandResult) ==
    /\ IsParsed(commandResult)
    /\ commandResult.commandName \notin Registered

C33_CurrentSession ==
    /\ [](/\ currentSessionId = Null \/ currentSessionId \in DOMAIN sessions
          /\ DOMAIN metadata = DOMAIN sessions)
    /\ [][(frame'.op = "deleteSession" /\ frame'.sessionId = currentSessionId) =>
              /\ currentSessionId' = Null
              /\ frame'.sessionId \notin DOMAIN sessions'
              /\ outcome'.value.value = TRUE]_vars
    /\ [][(frame'.op = "setCurrentSession" /\ frame'.sessionId \notin DOMAIN sessions) =>
              /\ outcome'.value.value = FALSE
              /\ currentSessionId' = currentSessionId
              /\ sessions' = sessions
              /\ metadata' = metadata]_vars

\* the current session has been deleted while another session is left
C33_Witness ==
    /\ frame.op = "deleteSession"
    /\ outcome.value.value = TRUE
    /\ currentSessionId = Null
    /\ DOMAIN sessions = SessionIds \ {frame.sessionId}

\* the id addMessage, replaceMessages and getMessages work on
StoreTarget(sessionId, current) == IF sessionId \in {Null, ""} THEN current ELSE sessionId

\* C34: addMessage and replaceMessages throw exactly when no id is resolved
\* or no session has the resolved id, and then the messages and the metadata
\* of every session are what they were; getMessages returns the empty
\* sequence in these cases and never throws
C34_StoreErrors ==
    /\ [][frame'.op \in {"addMessage", "replaceMessages"} =>
              LET id == StoreTarget(frame'.sessionId, currentSessionId)
              IN /\ outcome'.status = "threw" <=> (id = Null \/ id \notin DOMAIN sessions)
                 /\ outcome'.status = "threw" =>
                        /\ sessions' = sessions
                        /\ metadata' = metadata
                        /\ currentSessionId' = currentSessionId]_vars
    /\ [](frame.op = "getMessages" =>
              LET id == StoreTarget(frame.sessionId, currentSessionId)
              IN /\ outcome.status = "returned"
                 /\ outcome.value.messages
                        = IF id = Null \/ id \notin DOMAIN sessions THEN <<>>
                          ELSE sessions[id])

\* replaceMessages has thrown for the id of a session that does not exist,
\* while the current session exists and has messages
C34_Witness ==
    /\ frame.op = "replaceMessages"
    /\ frame.sessionId = "s2"
    /\ outcome.status = "threw"
    /\ DOMAIN sessions = {"s1"}
    /\ currentSessionId = "s1"
    /\ sessions["s1"] # <<>>

====
